---- MODULE Spec2Model ----
(***************************************************************************)
(* Agent health-supervision engine of auto_codex (auto_codex/health.py):   *)
(* the registry of AgentHealthInfo records, its mutators and queries, the  *)
(* termination controller, the health evaluator and the background poller. *)
(*                                                                         *)
(* Every public method of AgentHealthMonitor runs under self._lock from    *)
(* its first to its last statement, observers included.  Spec, SpecEval    *)
(* and SpecTick therefore take each method as one atomic action; SpecLock  *)
(* follows the lock and the observer calls step by step, and SpecLoop the  *)
(* statements of _monitor_loop.  datetime.now() is read from the variable  *)
(* `now`; the clock does not advance inside one method call.  What os.kill *)
(* does is an input of the call that makes it.                             *)
(***************************************************************************)
EXTENDS Integers, Sequences, FiniteSets, TLC

VARIABLES
    agents,            \* self._agents: agent id -> AgentHealthInfo, or NoRec
    order,             \* insertion order of the keys of self._agents
    status_callbacks,  \* self._status_callbacks: behaviour of each observer
    health_callbacks,  \* self._health_callbacks: behaviour of each observer
    now,               \* the wall clock read by datetime.now()
    op,                \* the last operation that ran, with its inputs
    ret,               \* what that operation returned
    kills,             \* the os.kill(pid, sig) calls that operation made, sig # 0
    calls,             \* the observer invocations that operation made, in order
    nops,              \* number of caller operations issued so far
    prev,              \* the registry as it was before that operation
    lock,              \* self._lock: the thread that owns it and how often
    stack,             \* per thread, the registry calls it is inside of
    _monitoring,       \* self._monitoring
    poller,            \* where the thread running _monitor_loop stands
    retired,           \* the earlier _monitor_loop threads that were replaced
    runs,              \* per run id, what CodexRun.health_info refers to
    _global_monitor,   \* the module variable _global_monitor, or NoMonitor
    getters,           \* per thread, where it stands in get_health_monitor
    monitors,          \* the monitors created and handed out so far
    shared,            \* the ids whose records hold one and the same
                       \* AgentMetrics object
    executions         \* per run id, where CodexRun.execute stands and
                       \* the statuses it has reported

(* The state of the threads; the actions that run a whole method at once
   leave it alone. *)
threads == <<lock, stack, _monitoring, poller, retired>>

(* The module-level default monitor and its callers. *)
globals == <<_global_monitor, getters, monitors>>

(* The state of the code that uses a monitor: the CodexRun objects and the
   callers of the module-level functions. *)
clients == <<runs, _global_monitor, getters, monitors, shared,
            executions>>

vars == <<agents, order, status_callbacks, health_callbacks, now,
          op, ret, kills, calls, nops, prev, lock, stack, _monitoring, poller,
          retired, runs, _global_monitor, getters, monitors, shared,
          executions>>

----------------------------------------------------------------------------
(* Bounds of the exploration *)

MaxOps == 3        \* caller operations per behaviour
MaxTime == 30      \* the clock stops advancing here
ClockStep == 15    \* seconds the clock advances in one step
MaxDepth == 2      \* registry calls a thread is inside of, nested ones included

(* The monitor under study is AgentHealthMonitor(timeout_threshold=15,
   max_error_count=2); the responsiveness window is the literal of
   is_responsive. *)
timeout_threshold == 15
max_error_count == 2
ResponsiveWindow == 30

Ids == {"a1", "a2"}
Pids == {7}
NoRec == [absent |-> TRUE]
NoPid == 0
NoTime == -1
NoMsg == "None"
EmptyMsg == ""
NoMetrics == [absent |-> TRUE]

INITIALIZING == "initializing"
RUNNING == "running"
WAITING_APPROVAL == "waiting_approval"
COMPLETING == "completing"
COMPLETED == "completed"
FAILED == "failed"
CANCELLED == "cancelled"
TIMEOUT == "timeout"
UNKNOWN_STATUS == "unknown"

AgentStatus == {INITIALIZING, RUNNING, WAITING_APPROVAL, COMPLETING, COMPLETED,
                FAILED, CANCELLED, TIMEOUT, UNKNOWN_STATUS}

HEALTHY == "healthy"
DEGRADED == "degraded"
UNHEALTHY == "unhealthy"
UNKNOWN == "unknown"

HealthStatus == {HEALTHY, DEGRADED, UNHEALTHY, UNKNOWN}

SIGTERM == "SIGTERM"
SIGKILL == "SIGKILL"

(* Outcomes of os.kill: the call returns, raises ProcessLookupError, or
   raises PermissionError. *)
ALIVE == "alive"
GONE == "gone"
DENIED == "denied"
ProbeOutcomes == {ALIVE, GONE, DENIED}

(* os.kill raising any other exception (an OSError that is neither of the
   two the code catches). *)
OSERROR == "oserror"
NoProbe == "none"

(* AgentMetrics(): the defaults of the dataclass. *)
AgentMetrics == [error_count |-> 0, last_activity |-> NoTime]

----------------------------------------------------------------------------
(* AgentHealthInfo and its derived properties *)

RunningLike == {INITIALIZING, RUNNING, WAITING_APPROVAL}

runtime_seconds(r, t) == t - r.start_time

is_running(r) == r.status \in RunningLike

is_responsive(r, t) ==
    IF r.last_heartbeat = NoTime
    THEN FALSE
    ELSE t - r.last_heartbeat < ResponsiveWindow

----------------------------------------------------------------------------
(* State Evaluator *)

(* Mutant: the process probe is made before the responsiveness check. *)
evaluate_probe_first(r, t, outcome) ==
    IF r.status \in {FAILED, CANCELLED, TIMEOUT} THEN UNHEALTHY
    ELSE IF r.status = COMPLETED THEN HEALTHY
    ELSE IF r.metrics.error_count >= max_error_count THEN UNHEALTHY
    ELSE IF is_running(r)
    THEN IF r.process_id # NoPid /\ outcome = GONE THEN UNHEALTHY
         ELSE IF ~is_responsive(r, t) THEN DEGRADED
         ELSE HEALTHY
    ELSE HEALTHY

(* Mutant: a ProcessLookupError of the probe is swallowed like a
   PermissionError. *)
evaluate_lookup_swallowed(r, t, outcome) ==
    IF r.status \in {FAILED, CANCELLED, TIMEOUT} THEN UNHEALTHY
    ELSE IF r.status = COMPLETED THEN HEALTHY
    ELSE IF r.metrics.error_count >= max_error_count THEN UNHEALTHY
    ELSE IF is_running(r) /\ ~is_responsive(r, t) THEN DEGRADED
    ELSE HEALTHY

(* Mutant: a probe that is refused leaves the verdict open. *)
evaluate_denied_unknown(r, t, outcome) ==
    IF r.status \in {FAILED, CANCELLED, TIMEOUT} THEN UNHEALTHY
    ELSE IF r.status = COMPLETED THEN HEALTHY
    ELSE IF r.metrics.error_count >= max_error_count THEN UNHEALTHY
    ELSE IF is_running(r)
    THEN IF ~is_responsive(r, t) THEN DEGRADED
         ELSE IF r.process_id # NoPid /\ outcome = GONE THEN UNHEALTHY
         ELSE IF r.process_id # NoPid /\ outcome = DENIED THEN UNKNOWN
         ELSE HEALTHY
    ELSE HEALTHY

(* _evaluate_agent_health; `outcome` is what os.kill(process_id, 0) does
   when the evaluation gets as far as calling it. *)
_evaluate_agent_health(r, t, outcome) ==
    IF r.status \in {FAILED, CANCELLED, TIMEOUT} THEN UNHEALTHY
    ELSE IF r.status = COMPLETED THEN HEALTHY
    ELSE IF r.metrics.error_count >= max_error_count THEN UNHEALTHY
    ELSE IF is_running(r)
    THEN IF ~is_responsive(r, t) THEN DEGRADED
         ELSE IF r.process_id # NoPid /\ outcome = GONE THEN UNHEALTHY
         ELSE HEALTHY
    ELSE HEALTHY

(* Whether _evaluate_agent_health gets as far as os.kill(process_id, 0). *)
reaches_probe(r, t) ==
    /\ r.status \notin {FAILED, CANCELLED, TIMEOUT, COMPLETED}
    /\ r.metrics.error_count < max_error_count
    /\ is_running(r)
    /\ is_responsive(r, t)
    /\ r.process_id # NoPid

----------------------------------------------------------------------------
(* Registry mutators, as functions of the registry *)

(* The AgentHealthInfo that register_agent constructs. *)
new_agent_info(pid, t) ==
    [status |-> INITIALIZING,
     health |-> UNKNOWN,
     start_time |-> t,
     last_heartbeat |-> NoTime,
     last_update |-> NoTime,
     process_id |-> pid,
     error_message |-> NoMsg,
     metrics |-> AgentMetrics]

(* Mutant: re-registration keeps the metrics and error message of the record
   it replaces. *)
register_agent_merging(regs, id, pid, t) ==
    IF regs[id] = NoRec
    THEN [regs EXCEPT ![id] = new_agent_info(pid, t)]
    ELSE [regs EXCEPT ![id] = [new_agent_info(pid, t) EXCEPT
                                  !.metrics = regs[id].metrics,
                                  !.error_message = regs[id].error_message]]

(* register_agent: the registry it leaves. *)
register_agent(regs, id, pid, t) == [regs EXCEPT ![id] = new_agent_info(pid, t)]

(* The key order of the dict after self._agents[id] = ...: an existing key
   keeps its place, a new key goes last. *)
order_after_set(ord, id) ==
    IF \E i \in 1..Len(ord) : ord[i] = id THEN ord ELSE Append(ord, id)

(* The key order of the dict after del self._agents[id], if present. *)
order_after_del(ord, id) == SelectSeq(ord, LAMBDA x : x # id)

(* `if error_message:` -- None and the empty string are both false. *)
truthy(error_message) == error_message \notin {NoMsg, EmptyMsg}

(* Mutant: last_update is stamped with the time the record was created. *)
status_written_backdating(r, status, error_message, t) ==
    LET r1 == [r EXCEPT !.status = status, !.last_update = r.start_time]
    IN  IF truthy(error_message)
        THEN [r1 EXCEPT !.error_message = error_message,
                        !.metrics.error_count = @ + 1]
        ELSE r1

(* Mutant: setting the status back to running restarts the runtime. *)
status_written_restarting(r, status, error_message, t) ==
    LET r1 == [r EXCEPT !.status = status, !.last_update = t]
        r2 == IF status = RUNNING THEN [r1 EXCEPT !.start_time = t] ELSE r1
    IN  IF truthy(error_message)
        THEN [r2 EXCEPT !.error_message = error_message,
                        !.metrics.error_count = @ + 1]
        ELSE r2

(* The field writes of update_agent_status on a registered record. *)
status_written(r, status, error_message, t) ==
    LET r1 == [r EXCEPT !.status = status, !.last_update = t]
    IN  IF truthy(error_message)
        THEN [r1 EXCEPT !.error_message = error_message,
                        !.metrics.error_count = @ + 1]
        ELSE r1

(* Mutant: the observers are invoked on every update, changed or not. *)
status_dispatch_unconditional(id, old_status, status) ==
    [i \in 1..Len(status_callbacks) |->
        [list |-> "status", index |-> i, id |-> id, value |-> status,
         raised |-> status_callbacks[i] = "raise"]]

(* Mutant: the first observer that raises ends the dispatch. *)
status_dispatch_aborting(id, old_status, status) ==
    IF old_status # status
    THEN LET n == Len(status_callbacks)
             stop == IF \E i \in 1..n : status_callbacks[i] = "raise"
                     THEN CHOOSE i \in 1..n :
                              /\ status_callbacks[i] = "raise"
                              /\ \A j \in 1..(i - 1) : status_callbacks[j] # "raise"
                     ELSE n
         IN  [i \in 1..stop |->
                 [list |-> "status", index |-> i, id |-> id, value |-> status,
                  raised |-> status_callbacks[i] = "raise"]]
    ELSE <<>>

(* The observer invocations of update_agent_status. *)
status_dispatch(id, old_status, status) ==
    IF old_status # status
    THEN [i \in 1..Len(status_callbacks) |->
             [list |-> "status", index |-> i, id |-> id, value |-> status,
              raised |-> status_callbacks[i] = "raise"]]
    ELSE <<>>

(* Mutant: a status update for an id that is not registered registers it. *)
update_agent_status_upserting(regs, id, status, error_message, t) ==
    LET r == IF regs[id] = NoRec THEN new_agent_info(NoPid, t) ELSE regs[id]
    IN  [agents |-> [regs EXCEPT ![id] =
                        status_written(r, status, error_message, t)],
         calls |-> status_dispatch(id, r.status, status)]

(* update_agent_status: the registry it leaves and the observers it invokes. *)
update_agent_status(regs, id, status, error_message, t) ==
    IF regs[id] = NoRec
    THEN [agents |-> regs, calls |-> <<>>]
    ELSE [agents |-> [regs EXCEPT ![id] =
                         status_written(regs[id], status, error_message, t)],
          calls |-> status_dispatch(id, regs[id].status, status)]

(* Mutant: the supplied error_count is added to the record's count. *)
heartbeat_written_accumulating(r, metrics, t) ==
    LET r1 == [r EXCEPT !.last_heartbeat = t, !.last_update = t]
    IN  IF metrics # NoMetrics
        THEN [r1 EXCEPT !.metrics =
                 [metrics EXCEPT !.last_activity = t,
                                 !.error_count = @ + r.metrics.error_count]]
        ELSE r1

(* The field writes of heartbeat on a registered record. *)
heartbeat_written(r, metrics, t) ==
    LET r1 == [r EXCEPT !.last_heartbeat = t, !.last_update = t]
    IN  IF metrics # NoMetrics
        THEN [r1 EXCEPT !.metrics = [metrics EXCEPT !.last_activity = t]]
        ELSE r1

(* Mutant: a heartbeat for an id that is not registered registers it. *)
heartbeat_upserting(regs, id, metrics, t) ==
    [regs EXCEPT ![id] = heartbeat_written(
        IF regs[id] = NoRec THEN new_agent_info(NoPid, t) ELSE regs[id],
        metrics, t)]

(* heartbeat: the registry it leaves. *)
heartbeat(regs, id, metrics, t) ==
    IF regs[id] = NoRec
    THEN regs
    ELSE [regs EXCEPT ![id] = heartbeat_written(regs[id], metrics, t)]

(* unregister_agent: the registry it leaves. *)
unregister_agent(regs, id) ==
    IF regs[id] # NoRec THEN [regs EXCEPT ![id] = NoRec] ELSE regs

(* Mutant: a re-registration that changes the status is dispatched to the
   status observers like a status update. *)
register_dispatch_transition(regs, id) ==
    IF regs[id] # NoRec
    THEN status_dispatch(id, regs[id].status, INITIALIZING)
    ELSE <<>>

(* The observer invocations of register_agent: it has none, whatever
   record it replaces. *)
register_dispatch(regs, id) == <<>>

(* Mutant: force is ignored. *)
terminate_signal_unforced(force) == SIGTERM

(* The signal terminate_agent sends. *)
terminate_signal(force) == IF force THEN SIGKILL ELSE SIGTERM

(* Mutant: an unknown id is reported as terminated. *)
terminate_not_found_reported_done(regs) ==
    [agents |-> regs, calls |-> <<>>, kills |-> <<>>, ret |-> TRUE]

(* terminate_agent, agent_id not in self._agents. *)
terminate_not_found(regs) ==
    [agents |-> regs, calls |-> <<>>, kills |-> <<>>, ret |-> FALSE]

(* terminate_agent, `if agent_info.process_id:` not taken. *)
terminate_no_process(regs, id, t) ==
    [agents |-> regs, calls |-> <<>>, kills |-> <<>>, ret |-> TRUE]

(* Mutant: a terminated agent is dropped from the registry. *)
terminate_delivered_unregistering(regs, id, sent, t) ==
    [agents |-> unregister_agent(regs, id), calls |-> <<>>, kills |-> sent,
     ret |-> TRUE]

(* terminate_agent, os.kill returned. *)
terminate_delivered(regs, id, sent, t) ==
    LET u == update_agent_status(regs, id, CANCELLED, NoMsg, t)
    IN  [agents |-> u.agents, calls |-> u.calls, kills |-> sent, ret |-> TRUE]

(* Mutant: a missing process is recorded as failed without an error
   message. *)
terminate_lookup_error_unexplained(regs, id, sent, t) ==
    LET u == update_agent_status(regs, id, FAILED, NoMsg, t)
    IN  [agents |-> u.agents, calls |-> u.calls, kills |-> sent, ret |-> TRUE]

(* terminate_agent, os.kill raised ProcessLookupError. *)
terminate_lookup_error(regs, id, sent, t) ==
    LET u == update_agent_status(regs, id, FAILED, "Process not found", t)
    IN  [agents |-> u.agents, calls |-> u.calls, kills |-> sent, ret |-> TRUE]

(* Mutant: a refused signal marks the agent failed. *)
terminate_permission_error_recorded(regs, id, sent, t) ==
    LET u == update_agent_status(regs, id, FAILED, "Permission denied", t)
    IN  [agents |-> u.agents, calls |-> u.calls, kills |-> sent, ret |-> FALSE]

(* terminate_agent, os.kill raised PermissionError. *)
terminate_permission_error(regs, id, sent, t) ==
    [agents |-> regs, calls |-> <<>>, kills |-> sent, ret |-> FALSE]

(* Mutant: a record that is no longer running-like is left alone. *)
terminate_agent_running_only(regs, id, force, outcome, t) ==
    IF regs[id] = NoRec
    THEN terminate_not_found(regs)
    ELSE IF regs[id].process_id # NoPid /\ is_running(regs[id])
    THEN LET sent == <<[pid |-> regs[id].process_id,
                        sig |-> terminate_signal(force)]>>
         IN  IF outcome = ALIVE THEN terminate_delivered(regs, id, sent, t)
             ELSE IF outcome = GONE THEN terminate_lookup_error(regs, id, sent, t)
             ELSE terminate_permission_error(regs, id, sent, t)
    ELSE terminate_no_process(regs, id, t)

(* terminate_agent: registry, observers invoked, os.kill calls and return
   value; `outcome` is what os.kill does if it is called. *)
terminate_agent(regs, id, force, outcome, t) ==
    IF regs[id] = NoRec
    THEN terminate_not_found(regs)
    ELSE IF regs[id].process_id # NoPid
    THEN LET sent == <<[pid |-> regs[id].process_id,
                        sig |-> terminate_signal(force)]>>
         IN  IF outcome = ALIVE THEN terminate_delivered(regs, id, sent, t)
             ELSE IF outcome = GONE THEN terminate_lookup_error(regs, id, sent, t)
             ELSE terminate_permission_error(regs, id, sent, t)
    ELSE terminate_no_process(regs, id, t)

----------------------------------------------------------------------------
(* Queries *)

(* get_agent_health: self._agents.get(agent_id), None as NoRec. *)
get_agent_health(regs, id) == regs[id]

(* Mutant: a key already counted is set to one again. *)
count_up_overwriting(counts, key) ==
    IF key \in DOMAIN counts
    THEN [counts EXCEPT ![key] = 1]
    ELSE [k \in DOMAIN counts \cup {key} |->
             IF k = key THEN 1 ELSE counts[k]]

(* counts[key] = counts.get(key, 0) + 1 *)
count_up(counts, key) ==
    IF key \in DOMAIN counts
    THEN [counts EXCEPT ![key] = @ + 1]
    ELSE [k \in DOMAIN counts \cup {key} |->
             IF k = key THEN 1 ELSE counts[k]]

(* The for loop of get_summary_stats from the i-th value of the dict on. *)
RECURSIVE summary_from(_, _, _, _, _)
summary_from(regs, ord, i, acc, t) ==
    IF i > Len(ord)
    THEN acc
    ELSE LET agent == regs[ord[i]]
         IN  summary_from(regs, ord, i + 1,
                 [acc EXCEPT
                     !.status_counts = count_up(@, agent.status),
                     !.health_counts = count_up(@, agent.health),
                     !.total_runtime = @ + runtime_seconds(agent, t),
                     !.total_errors = @ + agent.metrics.error_count],
                 t)

(* get_summary_stats; the two quotients it derives from these sums
   (average_runtime, healthy_percentage) are left out. *)
get_summary_stats(regs, ord, t) ==
    IF Len(ord) = 0
    THEN [total |-> 0]
    ELSE summary_from(regs, ord, 1,
             [total |-> Len(ord),
              status_counts |-> [k \in {} |-> 0],
              health_counts |-> [k \in {} |-> 0],
              total_runtime |-> 0,
              total_errors |-> 0],
             t)

----------------------------------------------------------------------------
(* Background poller *)

(* Mutant: the health observers are invoked for every record of a tick. *)
health_dispatch_unconditional(id, old_health, new_health) ==
    [i \in 1..Len(health_callbacks) |->
        [list |-> "health", index |-> i, id |-> id, value |-> new_health,
         raised |-> health_callbacks[i] \in {"raise", "stop"}]]

(* The observer invocations of one health change in _check_agent_health.
   They run on the thread of _monitor_loop, where an observer that calls
   stop_monitoring gets the RuntimeError of joining the current thread. *)
health_dispatch(id, old_health, new_health) ==
    IF old_health # new_health
    THEN [i \in 1..Len(health_callbacks) |->
             [list |-> "health", index |-> i, id |-> id, value |-> new_health,
              raised |-> health_callbacks[i] \in {"raise", "stop"}]]
    ELSE <<>>

(* Mutant: the timeout test ignores the status. *)
timed_out_any_status(r, t) == runtime_seconds(r, t) > timeout_threshold

(* Mutant: a runtime equal to the threshold already times out. *)
timed_out_at_threshold(r, t) ==
    is_running(r) /\ runtime_seconds(r, t) >= timeout_threshold

(* The timeout test of _check_agent_health. *)
timed_out(r, t) == is_running(r) /\ runtime_seconds(r, t) > timeout_threshold

(* Mutant: the evaluator's value is dispatched but not stored. *)
check_one_not_storing(regs, id, outcome, t) ==
    LET r == regs[id]
        new_health == _evaluate_agent_health(r, t, outcome)
        hcalls == health_dispatch(id, r.health, new_health)
    IN  IF timed_out(r, t)
        THEN LET u == update_agent_status(regs, id, TIMEOUT,
                                          "Agent timed out", t)
             IN  [agents |-> u.agents, calls |-> hcalls \o u.calls]
        ELSE [agents |-> regs, calls |-> hcalls]

(* The body of the for loop of _check_agent_health for one key. *)
check_one(regs, id, outcome, t) ==
    LET r == regs[id]
        new_health == _evaluate_agent_health(r, t, outcome)
        regs1 == [regs EXCEPT ![id].health = new_health]
        hcalls == health_dispatch(id, r.health, new_health)
    IN  IF timed_out(regs1[id], t)
        THEN LET u == update_agent_status(regs1, id, TIMEOUT,
                                          "Agent timed out", t)
             IN  [agents |-> u.agents, calls |-> hcalls \o u.calls]
        ELSE [agents |-> regs1, calls |-> hcalls]

(* The evaluation of r calls os.kill and os.kill raises an exception that
   _evaluate_agent_health does not catch. *)
probe_raises(r, t, outcome) == reaches_probe(r, t) /\ outcome = OSERROR

(* _check_agent_health from the i-th key of the dict on; outcomes[id] is
   what os.kill does for the record of id.  Nothing in the loop catches an
   exception of the evaluation: it leaves the loop and the method. *)
RECURSIVE check_from(_, _, _, _, _, _)
check_from(regs, ord, i, acc, outcomes, t) ==
    IF i > Len(ord)
    THEN [agents |-> regs, calls |-> acc, raised |-> FALSE]
    ELSE IF probe_raises(regs[ord[i]], t, outcomes[ord[i]])
    THEN [agents |-> regs, calls |-> acc, raised |-> TRUE]
    ELSE LET c == check_one(regs, ord[i], outcomes[ord[i]], t)
         IN  check_from(c.agents, ord, i + 1, acc \o c.calls, outcomes, t)

_check_agent_health(regs, ord, outcomes, t) ==
    check_from(regs, ord, 1, <<>>, outcomes, t)

----------------------------------------------------------------------------
(* The operations as actions.  Every action records what ran in op, what it
   returned in ret, the os.kill calls and observer invocations it made, and
   in prev the registry it started from. *)

NoRet == "None"

Threads == {"t1", "t2"}

NoThread == ""

(* threading.RLock(): not owned. *)
RLock == [owner |-> NoThread, count |-> 0]

(* The threads after __init__: no caller is inside a method, and
   start_monitoring has set the flag and started _monitor_loop. *)
ThreadsInit ==
    /\ lock = RLock
    /\ stack = [t \in Threads |-> <<>>]
    /\ _monitoring = TRUE
    /\ poller = [pc |-> "test", raised |-> FALSE, after_stop |-> 0,
                 joined |-> ""]
    /\ retired = <<>>

(* What CodexRun.health_info refers to: nothing yet, the record of the
   registry that register_agent returned to execute, a record that has been
   replaced or removed since, or the record after the process id was
   written. *)
NoRun == "none"

(* _global_monitor = None *)
NoMonitor == 0

(* A CodexRun whose execute has not been called. *)
NotStarted == [pc |-> "idle", success |-> FALSE, reported |-> <<>>]

(* No CodexRun has run and nobody has asked for the default monitor. *)
ClientsInit ==
    /\ runs = [id \in Ids |-> NoRun]
    /\ _global_monitor = NoMonitor
    /\ getters = [t \in Threads |-> "idle"]
    /\ monitors = [created |-> 0, since_stop |-> 0, returned |-> {}]
    /\ shared = {}
    /\ executions = [id \in Ids |-> NotStarted]

(* The record a CodexRun holds is no longer the record of the registry once
   register_agent has replaced it or unregister_agent has removed it. *)
released(held, id) ==
    IF held[id] = "current" THEN [held EXCEPT ![id] = "stale"] ELSE held

(* The operation ended by raising an exception to its caller. *)
Raised == "raised"

Label(name, id) ==
    [name |-> name, id |-> id, status |-> "", msg |-> NoMsg, force |-> FALSE,
     pid |-> NoPid, metrics |-> NoMetrics, outcome |-> NoProbe,
     outcomes |-> [x \in Ids |-> NoProbe]]

(* What callers pass to update_agent_status; CodexRun passes these four
   (core.py lines 226, 239, 248, 351). *)
StatusInputs ==
    {<<RUNNING, NoMsg>>, <<COMPLETED, NoMsg>>, <<FAILED, "boom">>,
     <<TIMEOUT, "Process timed out">>}

(* The metrics bundles a caller passes to heartbeat. *)
MetricsInputs ==
    {[error_count |-> e, last_activity |-> NoTime] : e \in {0, max_error_count}}

(* The observers the composition has installed with add_status_callback and
   add_health_callback: the first raises on every call, the second returns. *)
InstalledObservers == <<"raise", "ok">>

Init ==
    /\ agents = [id \in Ids |-> NoRec]
    /\ order = <<>>
    /\ status_callbacks = InstalledObservers
    /\ health_callbacks = InstalledObservers
    /\ now = 0
    /\ op = Label("init", "")
    /\ ret = NoRet
    /\ kills = <<>>
    /\ calls = <<>>
    /\ nops = 0
    /\ prev = [id \in Ids |-> NoRec]
    /\ ThreadsInit
    /\ ClientsInit

Register(id, pid) ==
    /\ nops < MaxOps
    /\ agents' = register_agent(agents, id, pid, now)
    /\ order' = order_after_set(order, id)
    /\ op' = [Label("register", id) EXCEPT !.pid = pid]
    /\ ret' = NoRet
    /\ kills' = <<>>
    /\ prev' = agents
    /\ calls' = register_dispatch(agents, id)
    /\ nops' = nops + 1
    /\ UNCHANGED <<status_callbacks, health_callbacks, now>>
    /\ UNCHANGED threads
    /\ runs' = released(runs, id)
    /\ shared' = shared \ {id}
    /\ UNCHANGED globals
    /\ UNCHANGED executions

Unregister(id) ==
    /\ nops < MaxOps
    /\ agents' = unregister_agent(agents, id)
    /\ order' = order_after_del(order, id)
    /\ op' = Label("unregister", id)
    /\ ret' = NoRet
    /\ kills' = <<>>
    /\ prev' = agents
    /\ calls' = <<>>
    /\ nops' = nops + 1
    /\ UNCHANGED <<status_callbacks, health_callbacks, now>>
    /\ UNCHANGED threads
    /\ runs' = released(runs, id)
    /\ shared' = shared \ {id}
    /\ UNCHANGED globals
    /\ UNCHANGED executions

(* The AgentMetrics object of the record of id is also the one of every
   other record in holders: what was written through the record of id shows
   in theirs. *)
aliased(regs, id, holders) ==
    IF id \in holders /\ regs[id] # NoRec
    THEN [x \in Ids |->
             IF x \in holders /\ regs[x] # NoRec
             THEN [regs[x] EXCEPT !.metrics = regs[id].metrics]
             ELSE regs[x]]
    ELSE regs

UpdateStatus(id, status, msg) ==
    /\ nops < MaxOps
    /\ LET u == update_agent_status(agents, id, status, msg, now)
       IN  /\ agents' = aliased(u.agents, id, shared)
           /\ calls' = u.calls
    /\ op' = [Label("update_status", id) EXCEPT !.status = status, !.msg = msg]
    /\ ret' = NoRet
    /\ kills' = <<>>
    /\ prev' = agents
    /\ nops' = nops + 1
    /\ UNCHANGED <<order, status_callbacks, health_callbacks, now>>
    /\ UNCHANGED threads
    /\ UNCHANGED clients

Heartbeat(id, metrics) ==
    /\ nops < MaxOps
    /\ agents' = heartbeat(agents, id, metrics, now)
    /\ op' = [Label("heartbeat", id) EXCEPT !.metrics = metrics]
    /\ ret' = NoRet
    /\ kills' = <<>>
    /\ prev' = agents
    /\ calls' = <<>>
    /\ nops' = nops + 1
    /\ UNCHANGED <<order, status_callbacks, health_callbacks, now>>
    /\ UNCHANGED threads
    /\ shared' = IF metrics # NoMetrics /\ agents[id] # NoRec
                 THEN shared \ {id} ELSE shared
    /\ UNCHANGED runs
    /\ UNCHANGED globals
    /\ UNCHANGED executions

(* heartbeat(id, metrics) where metrics is the object the record of other
   holds (the caller kept it from an earlier heartbeat, or read it from
   get_agent_health(other).metrics): `self._agents[id].metrics = metrics`
   stores that object itself, and the stamp on last_activity is written
   into it. *)
HeartbeatSame(id, other) ==
    /\ nops < MaxOps
    /\ id # other
    /\ agents[other] # NoRec
    /\ shared = {} \/ other \in shared
    /\ agents' = IF agents[id] = NoRec THEN agents
                 ELSE aliased(heartbeat(agents, id, agents[other].metrics, now),
                              id, shared \cup {id, other})
    /\ shared' = IF agents[id] = NoRec THEN shared
                 ELSE shared \cup {id, other}
    /\ op' = [Label("heartbeat", id) EXCEPT !.metrics = agents[other].metrics]
    /\ ret' = NoRet
    /\ kills' = <<>>
    /\ prev' = agents
    /\ calls' = <<>>
    /\ nops' = nops + 1
    /\ UNCHANGED <<order, status_callbacks, health_callbacks, now>>
    /\ UNCHANGED threads
    /\ UNCHANGED runs
    /\ UNCHANGED globals
    /\ UNCHANGED executions

(* outcome is what os.kill does; NoProbe exactly when it is not called. *)
Terminate(id, force, outcome) ==
    /\ nops < MaxOps
    /\ outcome # NoProbe <=> (agents[id] # NoRec /\ agents[id].process_id # NoPid)
    /\ LET r == terminate_agent(agents, id, force, outcome, now)
       IN  /\ agents' = aliased(r.agents, id, shared)
           /\ calls' = r.calls
           /\ kills' = r.kills
           /\ ret' = r.ret
    /\ op' = [Label("terminate", id) EXCEPT !.force = force, !.outcome = outcome]
    /\ nops' = nops + 1
    /\ prev' = agents
    /\ UNCHANGED <<order, status_callbacks, health_callbacks, now>>
    /\ UNCHANGED threads
    /\ UNCHANGED clients

(* The loop of _check_agent_health was left by an exception before it came
   to the key id. *)
aborted_before(ord, id, outcomes) ==
    \E i, j \in 1..Len(ord) : i < j /\ ord[j] = id /\ outcomes[ord[i]] = OSERROR

(* One call of _check_agent_health.  outcomes[id] is what os.kill does for
   the record of id; NoProbe exactly when the evaluation of that record
   does not call it. *)
Tick(outcomes) ==
    /\ \A id \in Ids :
          outcomes[id] # NoProbe
              <=> /\ agents[id] # NoRec
                  /\ reaches_probe(agents[id], now)
                  /\ ~aborted_before(order, id, outcomes)
    /\ LET c == _check_agent_health(agents, order, outcomes, now)
       IN  /\ agents' = c.agents
           /\ calls' = c.calls
           /\ ret' = IF c.raised THEN Raised ELSE NoRet
    /\ op' = [Label("tick", "") EXCEPT !.outcomes = outcomes]
    /\ kills' = <<>>
    /\ prev' = agents
    /\ UNCHANGED <<order, status_callbacks, health_callbacks, now, nops>>

(* One iteration of _monitor_loop, where the loop itself is not followed. *)
PollerTick(outcomes) ==
    Tick(outcomes) /\ UNCHANGED threads /\ UNCHANGED clients

Get(id) ==
    /\ ret' = get_agent_health(agents, id)
    /\ op' = Label("get", id)
    /\ kills' = <<>>
    /\ calls' = <<>>
    /\ prev' = agents
    /\ UNCHANGED <<agents, order, status_callbacks, health_callbacks, now, nops>>
    /\ UNCHANGED threads
    /\ UNCHANGED clients

Summary ==
    /\ ret' = get_summary_stats(agents, order, now)
    /\ op' = Label("summary", "")
    /\ kills' = <<>>
    /\ calls' = <<>>
    /\ prev' = agents
    /\ UNCHANGED <<agents, order, status_callbacks, health_callbacks, now, nops>>
    /\ UNCHANGED threads
    /\ UNCHANGED clients

(* Time passes. *)
AdvanceClock ==
    /\ now + ClockStep <= MaxTime
    /\ now' = now + ClockStep
    /\ op' = Label("clock", "")
    /\ ret' = NoRet
    /\ kills' = <<>>
    /\ prev' = agents
    /\ calls' = <<>>
    /\ UNCHANGED <<agents, order, status_callbacks, health_callbacks, nops>>
    /\ UNCHANGED threads
    /\ UNCHANGED clients

Next ==
    \/ \E id \in Ids, pid \in Pids \cup {NoPid} : Register(id, pid)
    \/ \E id \in Ids : Unregister(id)
    \/ \E id \in Ids, sm \in StatusInputs : UpdateStatus(id, sm[1], sm[2])
    \/ \E id \in Ids, metrics \in MetricsInputs \cup {NoMetrics} :
          Heartbeat(id, metrics)
    \/ \E id \in Ids, force \in BOOLEAN, outcome \in ProbeOutcomes \cup {NoProbe} :
          Terminate(id, force, outcome)
    \/ \E outcomes \in [Ids -> ProbeOutcomes \cup {NoProbe}] : PollerTick(outcomes)
    \/ \E id \in Ids : Get(id)
    \/ Summary
    \/ AdvanceClock

Spec == Init /\ [][Next]_vars

(* The caller operations, with callers that pass to heartbeat an
   AgentMetrics object they have passed before. *)
ShareNext ==
    \/ \E id \in Ids, pid \in Pids \cup {NoPid} : Register(id, pid)
    \/ \E id \in Ids : Unregister(id)
    \/ \E id \in Ids, sm \in StatusInputs : UpdateStatus(id, sm[1], sm[2])
    \/ \E id \in Ids, metrics \in MetricsInputs \cup {NoMetrics} :
          Heartbeat(id, metrics)
    \/ \E id, other \in Ids : HeartbeatSame(id, other)
    \/ \E id \in Ids, force \in BOOLEAN, outcome \in ProbeOutcomes \cup {NoProbe} :
          Terminate(id, force, outcome)
    \/ AdvanceClock

SpecShare == Init /\ [][ShareNext]_vars

----------------------------------------------------------------------------
(* The evaluator on its own: one record drawn from the inputs below, then
   _evaluate_agent_health applied to it at time EvalNow. *)

EvalId == "a1"

(* The record is as old as the responsiveness window, so a heartbeat sent
   at its registration is just stale and any later one is fresh. *)
EvalHeartbeats == {NoTime, 0, 1, ResponsiveWindow}

EvalErrorCounts == 0..(max_error_count + 1)

EvalRecord(status, hb, pid, errors) ==
    [status |-> status,
     health |-> UNKNOWN,
     start_time |-> 0,
     last_heartbeat |-> hb,
     last_update |-> IF status = INITIALIZING /\ hb = NoTime /\ errors = 0
                     THEN NoTime ELSE ResponsiveWindow,
     process_id |-> pid,
     error_message |-> IF hb = NoTime /\ errors > 0 THEN "boom" ELSE NoMsg,
     metrics |-> [error_count |-> errors,
                  last_activity |-> IF errors > 0 THEN hb ELSE NoTime]]

EvalInit ==
    /\ \E status \in AgentStatus, hb \in EvalHeartbeats,
          pid \in Pids \cup {NoPid}, errors \in EvalErrorCounts :
          agents = [id \in Ids |-> IF id = EvalId
                                   THEN EvalRecord(status, hb, pid, errors)
                                   ELSE NoRec]
    /\ order = <<EvalId>>
    /\ status_callbacks = <<>>
    /\ health_callbacks = <<>>
    /\ now = ResponsiveWindow
    /\ op = Label("init", "")
    /\ ret = NoRet
    /\ kills = <<>>
    /\ calls = <<>>
    /\ nops = 0
    /\ prev = agents
    /\ ThreadsInit
    /\ ClientsInit

Evaluate(id, outcome) ==
    /\ ret' = _evaluate_agent_health(agents[id], now, outcome)
    /\ op' = [Label("evaluate", id) EXCEPT !.outcome = outcome]
    /\ kills' = <<>>
    /\ calls' = <<>>
    /\ prev' = agents
    /\ UNCHANGED <<agents, order, status_callbacks, health_callbacks, now, nops>>
    /\ UNCHANGED threads
    /\ UNCHANGED clients

EvalNext == \E outcome \in ProbeOutcomes : Evaluate(EvalId, outcome)

SpecEval == EvalInit /\ [][EvalNext]_vars

----------------------------------------------------------------------------
(* _monitor_loop followed statement by statement, with os.kill also able to
   raise an exception the evaluator does not catch. *)

(* Mutant: the loop has no try/except; an exception of the tick ends the
   thread. *)
after_tick_unhandled(raised) == IF raised THEN "exited" ELSE "sleep"

(* Where _monitor_loop goes after _check_agent_health: the sleep of the
   try block, or the sleep of the except block. *)
after_tick(raised) == IF raised THEN "backoff" ELSE "sleep"

(* while self._monitoring: *)
LoopTest ==
    /\ poller.pc = "test"
    /\ poller' = [poller EXCEPT !.pc = IF _monitoring THEN "check" ELSE "exited"]
    /\ op' = Label("loop_test", "")
    /\ ret' = NoRet
    /\ kills' = <<>>
    /\ calls' = <<>>
    /\ prev' = agents
    /\ UNCHANGED <<agents, order, status_callbacks, health_callbacks, now, nops,
                   lock, stack, _monitoring>>
    /\ UNCHANGED clients
    /\ UNCHANGED retired

(* How a call of stop_monitoring ends: self._monitor_thread.join(timeout=5.0)
   returns, or, called on the thread of _monitor_loop itself while that is
   alive, raises RuntimeError (cannot join current thread). *)
stop_monitoring_join(on_poller, alive) ==
    IF on_poller /\ alive THEN "raised" ELSE "returned"

(* An observer invoked in the tick calls stop_monitoring. *)
observer_stops(invoked) ==
    \E i \in 1..Len(invoked) :
        /\ invoked[i].list = "health"
        /\ health_callbacks[invoked[i].index] = "stop"

(* The ticks begun since _monitoring was cleared, counted up to Many. *)
Many == 2

ticks_after_stop(count, monitoring) ==
    IF monitoring THEN count
    ELSE IF count < Many THEN count + 1 ELSE Many

(* self._check_agent_health(), inside the try. *)
LoopCheck(outcomes) ==
    /\ poller.pc = "check"
    /\ Tick(outcomes)
    /\ _monitoring' = (_monitoring /\ ~observer_stops(calls'))
    /\ poller' = [pc |-> after_tick(ret' = Raised),
                  raised |-> poller.raised \/ ret' = Raised,
                  after_stop |-> ticks_after_stop(poller.after_stop,
                                                  _monitoring),
                  joined |-> IF observer_stops(calls')
                             THEN stop_monitoring_join(TRUE, TRUE)
                             ELSE poller.joined]
    /\ UNCHANGED <<lock, stack>>
    /\ UNCHANGED clients
    /\ UNCHANGED retired

(* time.sleep(...) returns, in the try or in the except block. *)
LoopWake ==
    /\ poller.pc \in {"sleep", "backoff"}
    /\ poller' = [poller EXCEPT !.pc = "test"]
    /\ op' = Label("loop_wake", "")
    /\ ret' = NoRet
    /\ kills' = <<>>
    /\ calls' = <<>>
    /\ prev' = agents
    /\ UNCHANGED <<agents, order, status_callbacks, health_callbacks, now, nops,
                   lock, stack, _monitoring>>
    /\ UNCHANGED clients
    /\ UNCHANGED retired

(* stop_monitoring called by a thread other than the poller: the flag is
   cleared and the join, which does not wait longer than its timeout,
   returns. *)
StopMonitoring ==
    /\ _monitoring
    /\ _monitoring' = FALSE
    /\ poller' = [poller EXCEPT !.joined =
                      stop_monitoring_join(FALSE, poller.pc # "exited")]
    /\ op' = Label("stop_monitoring", "")
    /\ ret' = NoRet
    /\ kills' = <<>>
    /\ calls' = <<>>
    /\ prev' = agents
    /\ UNCHANGED <<agents, order, status_callbacks, health_callbacks, now, nops,
                   lock, stack>>
    /\ UNCHANGED clients
    /\ UNCHANGED retired

LoopNext ==
    \/ \E id \in Ids, pid \in Pids \cup {NoPid} : Register(id, pid)
    \/ \E id \in Ids, metrics \in MetricsInputs \cup {NoMetrics} :
          Heartbeat(id, metrics)
    \/ LoopTest
    \/ \E outcomes \in [Ids -> ProbeOutcomes \cup {OSERROR, NoProbe}] :
          LoopCheck(outcomes)
    \/ LoopWake
    \/ StopMonitoring

SpecLoop == Init /\ [][LoopNext]_vars

(* The observers of the stop specification: the first health observer calls
   stop_monitoring, the others return. *)
StoppingObservers == <<"stop", "ok">>

StopInit ==
    /\ agents = [id \in Ids |-> NoRec]
    /\ order = <<>>
    /\ status_callbacks = <<"ok", "ok">>
    /\ health_callbacks = StoppingObservers
    /\ now = 0
    /\ op = Label("init", "")
    /\ ret = NoRet
    /\ kills = <<>>
    /\ calls = <<>>
    /\ nops = 0
    /\ prev = [id \in Ids |-> NoRec]
    /\ ThreadsInit
    /\ ClientsInit

SpecStop == StopInit /\ [][LoopNext]_vars

(* The thread of _monitor_loop and the sleeps of the loop keep running. *)
SpecStopFair ==
    /\ SpecStop
    /\ WF_vars(LoopTest)
    /\ WF_vars(LoopWake)
    /\ WF_vars(\E outcomes \in [Ids -> ProbeOutcomes \cup {OSERROR, NoProbe}] :
                   LoopCheck(outcomes))

----------------------------------------------------------------------------
(* start_monitoring after stop_monitoring: the thread that stop_monitoring
   joined for at most its timeout may still be alive when a new one is
   started. *)

(* threading.Thread(target=self._monitor_loop).start() *)
started_thread ==
    [pc |-> "test", raised |-> FALSE, after_stop |-> 0, joined |-> ""]

(* The thread self._monitor_thread referred to, if it is still alive, goes
   on running beside the new one; resumed says whether it has found
   `while self._monitoring` true since. *)
retire(old, thread) ==
    IF thread.pc = "exited" THEN old
    ELSE Append(old, [pc |-> thread.pc, resumed |-> FALSE])

(* start_monitoring: `if self._monitoring: return`, else the flag is set
   and a new thread is started. *)
start_monitoring(monitoring, thread, old) ==
    IF monitoring
    THEN [_monitoring |-> monitoring, poller |-> thread, retired |-> old]
    ELSE [_monitoring |-> TRUE, poller |-> started_thread,
          retired |-> retire(old, thread)]

StartMonitoring ==
    /\ nops < MaxOps
    /\ LET s == start_monitoring(_monitoring, poller, retired)
       IN  /\ _monitoring' = s._monitoring
           /\ poller' = s.poller
           /\ retired' = s.retired
    /\ op' = Label("start_monitoring", "")
    /\ ret' = NoRet
    /\ kills' = <<>>
    /\ calls' = <<>>
    /\ prev' = agents
    /\ nops' = nops + 1
    /\ UNCHANGED <<agents, order, status_callbacks, health_callbacks, now,
                   lock, stack>>
    /\ UNCHANGED clients

(* while self._monitoring: on a replaced thread. *)
RetiredTest(i) ==
    /\ i \in 1..Len(retired)
    /\ retired[i].pc = "test"
    /\ retired' = [retired EXCEPT ![i] =
                      [pc |-> IF _monitoring THEN "check" ELSE "exited",
                       resumed |-> retired[i].resumed \/ _monitoring]]
    /\ op' = Label("loop_test", "")
    /\ ret' = NoRet
    /\ kills' = <<>>
    /\ calls' = <<>>
    /\ prev' = agents
    /\ UNCHANGED <<agents, order, status_callbacks, health_callbacks, now, nops,
                   lock, stack, _monitoring, poller>>
    /\ UNCHANGED clients

(* self._check_agent_health() on a replaced thread. *)
RetiredCheck(i, outcomes) ==
    /\ i \in 1..Len(retired)
    /\ retired[i].pc = "check"
    /\ Tick(outcomes)
    /\ retired' = [retired EXCEPT ![i].pc = after_tick(ret' = Raised)]
    /\ UNCHANGED <<lock, stack, _monitoring, poller>>
    /\ UNCHANGED clients

(* time.sleep(...) returns on a replaced thread. *)
RetiredWake(i) ==
    /\ i \in 1..Len(retired)
    /\ retired[i].pc \in {"sleep", "backoff"}
    /\ retired' = [retired EXCEPT ![i].pc = "test"]
    /\ op' = Label("loop_wake", "")
    /\ ret' = NoRet
    /\ kills' = <<>>
    /\ calls' = <<>>
    /\ prev' = agents
    /\ UNCHANGED <<agents, order, status_callbacks, health_callbacks, now, nops,
                   lock, stack, _monitoring, poller>>
    /\ UNCHANGED clients

RestartNext ==
    \/ \E id \in Ids, pid \in Pids : Register(id, pid)
    \/ LoopTest
    \/ \E outcomes \in [Ids -> ProbeOutcomes \cup {NoProbe}] : LoopCheck(outcomes)
    \/ LoopWake
    \/ StopMonitoring
    \/ StartMonitoring
    \/ \E i \in 1..MaxOps : RetiredTest(i)
    \/ \E i \in 1..MaxOps, outcomes \in [Ids -> ProbeOutcomes \cup {NoProbe}] :
          RetiredCheck(i, outcomes)
    \/ \E i \in 1..MaxOps : RetiredWake(i)

SpecRestart == Init /\ [][RestartNext]_vars

----------------------------------------------------------------------------
(* A poller tick with a health observer that calls back into the registry
   and changes its set of keys: the observer kind "unregister" calls
   unregister_agent(agent_id) for the id it is notified about.  The call is
   made on the poller's thread, which owns the RLock, so it runs at once,
   while the for loop is iterating over self._agents.items(). *)

(* An observer of the health list removes the record it is told about. *)
observer_unregisters(hcalls) ==
    /\ hcalls # <<>>
    /\ \E i \in 1..Len(health_callbacks) : health_callbacks[i] = "unregister"

(* The body of the for loop for one key.  agent_info is the object the
   iteration handed out: the timeout test reads it even after the key was
   removed, and update_agent_status then finds the id not registered. *)
check_one_reentered(regs, id, outcome, t) ==
    LET r == regs[id]
        new_health == _evaluate_agent_health(r, t, outcome)
        regs1 == [regs EXCEPT ![id].health = new_health]
        hcalls == health_dispatch(id, r.health, new_health)
        removed == observer_unregisters(hcalls)
        regs2 == IF removed THEN unregister_agent(regs1, id) ELSE regs1
    IN  IF timed_out(regs1[id], t)
        THEN LET u == update_agent_status(regs2, id, TIMEOUT,
                                          "Agent timed out", t)
             IN  [agents |-> u.agents, calls |-> hcalls \o u.calls,
                  resized |-> removed]
        ELSE [agents |-> regs2, calls |-> hcalls, resized |-> removed]

(* _check_agent_health from the i-th key on.  When the dict has changed
   size during the body, the iterator raises RuntimeError ("dictionary
   changed size during iteration") as the for statement asks it for the
   next item, the last one included; nothing in the method catches it. *)
RECURSIVE check_from_reentered(_, _, _, _, _, _)
check_from_reentered(regs, ord, i, acc, outcomes, t) ==
    IF i > Len(ord)
    THEN [agents |-> regs, calls |-> acc, raised |-> FALSE]
    ELSE IF probe_raises(regs[ord[i]], t, outcomes[ord[i]])
    THEN [agents |-> regs, calls |-> acc, raised |-> TRUE]
    ELSE LET c == check_one_reentered(regs, ord[i], outcomes[ord[i]], t)
         IN  IF c.resized
             THEN [agents |-> c.agents, calls |-> acc \o c.calls,
                   raised |-> TRUE]
             ELSE check_from_reentered(c.agents, ord, i + 1, acc \o c.calls,
                                       outcomes, t)

(* The keys that are left, in their order. *)
order_of(ord, regs) == SelectSeq(ord, LAMBDA x : regs[x] # NoRec)

(* One call of _check_agent_health with such an observer installed;
   outcomes[id] is what os.kill does for the record of id if the
   evaluation calls it. *)
ReenteredTick(outcomes) ==
    /\ LET c == check_from_reentered(agents, order, 1, <<>>, outcomes, now)
       IN  /\ agents' = c.agents
           /\ order' = order_of(order, c.agents)
           /\ calls' = c.calls
           /\ ret' = IF c.raised THEN Raised ELSE NoRet
           /\ runs' = [id \in Ids |->
                          IF agents[id] # NoRec /\ c.agents[id] = NoRec
                          THEN released(runs, id)[id] ELSE runs[id]]
           /\ shared' = {id \in shared : c.agents[id] # NoRec}
    /\ op' = [Label("tick", "") EXCEPT !.outcomes = outcomes]
    /\ kills' = <<>>
    /\ prev' = agents
    /\ UNCHANGED <<status_callbacks, health_callbacks, now, nops>>
    /\ UNCHANGED threads
    /\ UNCHANGED globals
    /\ UNCHANGED executions

(* The observers installed on the health list: the first unregisters, the
   second returns. *)
UnregisteringObservers == <<"unregister", "ok">>

ReenteredInit ==
    /\ agents = [id \in Ids |-> NoRec]
    /\ order = <<>>
    /\ status_callbacks = InstalledObservers
    /\ health_callbacks = UnregisteringObservers
    /\ now = 0
    /\ op = Label("init", "")
    /\ ret = NoRet
    /\ kills = <<>>
    /\ calls = <<>>
    /\ nops = 0
    /\ prev = [id \in Ids |-> NoRec]
    /\ ThreadsInit
    /\ ClientsInit

ReenteredNext ==
    \/ \E id \in Ids, pid \in Pids \cup {NoPid} : Register(id, pid)
    \/ \E id \in Ids, sm \in StatusInputs : UpdateStatus(id, sm[1], sm[2])
    \/ \E id \in Ids, metrics \in MetricsInputs \cup {NoMetrics} :
          Heartbeat(id, metrics)
    \/ \E outcomes \in [Ids -> {ALIVE, GONE}] : ReenteredTick(outcomes)
    \/ AdvanceClock

SpecReentered == ReenteredInit /\ [][ReenteredNext]_vars

----------------------------------------------------------------------------
(* The lock, followed statement by statement: a thread enters a method by
   acquiring self._lock, the method writes its fields and then calls its
   observers one by one, still inside `with self._lock`; an observer may
   itself call a method of the monitor; the lock is released when the
   method returns. *)

(* The operation has been entered and has not returned yet. *)
InCall == "in call"

NoCall == [absent |-> TRUE]

(* Mutant: self._lock is a threading.Lock, which its owner cannot acquire
   again. *)
can_acquire_plain(lk, t) == lk.owner = NoThread

(* Mutant: no lock is taken, `with self._lock:` never waits. *)
can_acquire_always(lk, t) == TRUE

(* RLock.acquire() does not block: the lock is free or owned by t. *)
can_acquire(lk, t) == lk.owner = NoThread \/ lk.owner = t

acquire(lk, t) == [owner |-> t, count |-> lk.count + 1]

release(lk) ==
    IF lk.count = 1 THEN RLock ELSE [lk EXCEPT !.count = @ - 1]

(* The agent the calls of the lock specifications are about. *)
LockIds == {"a1"}

(* The statuses passed to update_agent_status in the lock specifications:
   those of StatusInputs that come without an error message. *)
LockStatusInputs == {sm \in StatusInputs : sm[2] = NoMsg}

(* What os.kill does in the lock specifications: the process is there. *)
LockOutcomes == {ALIVE}

(* The method calls a thread or an observer makes. *)
LockCalls ==
    {[name |-> "update_status", id |-> id, status |-> sm[1], msg |-> sm[2],
      outcome |-> NoProbe] : id \in LockIds, sm \in LockStatusInputs}
    \cup {[name |-> n, id |-> id, status |-> "", msg |-> NoMsg,
           outcome |-> NoProbe] : n \in {"heartbeat", "get"}, id \in LockIds}
    \cup {[name |-> "terminate", id |-> id, status |-> "", msg |-> NoMsg,
           outcome |-> o] : id \in LockIds, o \in LockOutcomes \cup {NoProbe}}
    \cup {[name |-> "summary", id |-> "", status |-> "", msg |-> NoMsg,
           outcome |-> NoProbe]}

(* The process of the agent of the lock specifications. *)
LockPid == CHOOSE pid \in Pids : TRUE

(* register_agent(id, pid) and unregister_agent(id), which threads call and
   the observers of the lock specifications do not. *)
LockRegistryCalls ==
    {[name |-> n, id |-> id, status |-> "", msg |-> NoMsg,
      outcome |-> NoProbe] : n \in {"register", "unregister"}, id \in LockIds}

(* _check_agent_health, which the poller thread calls. *)
TickCall ==
    [name |-> "tick", id |-> "", status |-> "", msg |-> NoMsg,
     outcome |-> NoProbe]

(* os.kill is reached by the call exactly when the call says what it does. *)
call_possible(call, regs) ==
    call.name = "terminate"
    => (call.outcome # NoProbe
            <=> (regs[call.id] # NoRec /\ regs[call.id].process_id # NoPid))

(* No call of update_agent_status is still to make. *)
NoUpdate == <<>>

(* The call of update_agent_status that terminate_agent makes after os.kill
   has returned or raised. *)
terminate_update(id, outcome) ==
    CASE outcome = ALIVE -> <<id, CANCELLED, NoMsg>>
      [] outcome = GONE -> <<id, FAILED, "Process not found">>
      [] OTHER -> NoUpdate

(* The called method up to its first call of another method of the monitor:
   its field writes, the observers it has to call, the signals it has sent
   and the call of update_agent_status it has still to make. *)
call_effect(call, regs, t) ==
    CASE call.name = "update_status" ->
            LET u == update_agent_status(regs, call.id, call.status,
                                         call.msg, t)
            IN  [agents |-> u.agents, calls |-> u.calls, kills |-> <<>>,
                 update |-> NoUpdate]
      [] call.name = "heartbeat" ->
            [agents |-> heartbeat(regs, call.id, NoMetrics, t),
             calls |-> <<>>, kills |-> <<>>, update |-> NoUpdate]
      [] call.name = "terminate" ->
            [agents |-> regs, calls |-> <<>>,
             kills |-> terminate_agent(regs, call.id, FALSE, call.outcome,
                                       t).kills,
             update |-> terminate_update(call.id, call.outcome)]
      [] call.name = "register" ->
            [agents |-> register_agent(regs, call.id, LockPid, t),
             calls |-> <<>>, kills |-> <<>>, update |-> NoUpdate]
      [] call.name = "unregister" ->
            [agents |-> unregister_agent(regs, call.id),
             calls |-> <<>>, kills |-> <<>>, update |-> NoUpdate]
      [] OTHER -> [agents |-> regs, calls |-> <<>>, kills |-> <<>>,
                   update |-> NoUpdate]

(* The insertion order of the dict after the call. *)
call_order(call, ord) ==
    CASE call.name = "register" -> order_after_set(ord, call.id)
      [] call.name = "unregister" -> order_after_del(ord, call.id)
      [] OTHER -> ord

(* The frame of a method call: the observers still to call, the one that
   is running, and whether that one has made its call into the monitor;
   for _check_agent_health also the keys its for loop has still to visit
   and the key whose timeout check is still to make, for terminate_agent
   the call of update_agent_status that follows os.kill. *)
frame(pending, keys) ==
    [pending |-> pending, running |-> NoCall, called |-> FALSE,
     keys |-> keys, check |-> "", update |-> NoUpdate]

top(t) == stack[t][Len(stack[t])]

(* The observer that is running in the top frame of t calls back into the
   monitor, unless the thread is MaxDepth calls deep already. *)
reenters(t) ==
    /\ top(t).running # NoCall
    /\ (IF top(t).running.list = "status"
        THEN status_callbacks ELSE health_callbacks)[top(t).running.index]
           = "reenter"
    /\ ~top(t).called
    /\ Len(stack[t]) < MaxDepth

(* A thread calls a method: `with self._lock:` and the field writes. *)
LockEnter(t, call) ==
    /\ nops < MaxOps
    /\ stack[t] = <<>>
    /\ call_possible(call, agents)
    /\ can_acquire(lock, t)
    /\ lock' = acquire(lock, t)
    /\ LET e == call_effect(call, agents, now)
       IN  /\ agents' = e.agents
           /\ kills' = e.kills
           /\ stack' = [stack EXCEPT ![t] =
                  <<[frame(e.calls, IF call = TickCall THEN order ELSE <<>>)
                        EXCEPT !.update = e.update]>>]
    /\ order' = call_order(call, order)
    /\ op' = [Label(call.name, call.id) EXCEPT
                  !.status = call.status, !.msg = call.msg,
                  !.outcome = call.outcome]
    /\ ret' = InCall
    /\ calls' = <<>>
    /\ prev' = agents
    /\ nops' = nops + 1
    /\ UNCHANGED <<status_callbacks, health_callbacks, now,
                   _monitoring, poller>>
    /\ UNCHANGED clients
    /\ UNCHANGED retired

(* The for loop over the callbacks calls the next observer. *)
LockInvoke(t) ==
    /\ stack[t] # <<>>
    /\ top(t).running = NoCall
    /\ top(t).pending # <<>>
    /\ stack' = [stack EXCEPT ![t][Len(stack[t])] =
                     [@ EXCEPT !.running = Head(top(t).pending),
                               !.pending = Tail(top(t).pending)]]
    /\ UNCHANGED <<agents, order, status_callbacks, health_callbacks, now,
                   op, ret, kills, calls, nops, prev, lock, _monitoring, poller>>
    /\ UNCHANGED clients
    /\ UNCHANGED retired

(* The running observer calls a method of the monitor. *)
LockNested(t, call) ==
    /\ stack[t] # <<>>
    /\ reenters(t)
    /\ call_possible(call, agents)
    /\ can_acquire(lock, t)
    /\ lock' = acquire(lock, t)
    /\ LET e == call_effect(call, agents, now)
       IN  /\ agents' = e.agents
           /\ kills' = kills \o e.kills
           /\ stack' = [stack EXCEPT ![t] =
                            Append([@ EXCEPT ![Len(@)].called = TRUE],
                                   [frame(e.calls, <<>>)
                                       EXCEPT !.update = e.update])]
    /\ UNCHANGED <<order, status_callbacks, health_callbacks, now,
                   op, ret, calls, nops, prev, _monitoring, poller>>
    /\ UNCHANGED clients
    /\ UNCHANGED retired

(* The running observer returns (or raises into the except of the loop). *)
LockObserverDone(t) ==
    /\ stack[t] # <<>>
    /\ top(t).running # NoCall
    /\ ~reenters(t)
    /\ stack' = [stack EXCEPT ![t][Len(stack[t])] =
                     [@ EXCEPT !.running = NoCall, !.called = FALSE]]
    /\ UNCHANGED <<agents, order, status_callbacks, health_callbacks, now,
                   op, ret, kills, calls, nops, prev, lock, _monitoring, poller>>
    /\ UNCHANGED clients
    /\ UNCHANGED retired

(* The for loop of _check_agent_health comes to its next key: the record
   is evaluated and a changed health is stored, its observers to be called.
   outcome is what os.kill does, NoProbe exactly when it is not called. *)
LockTickKey(t, outcome) ==
    /\ stack[t] # <<>>
    /\ top(t).running = NoCall
    /\ top(t).pending = <<>>
    /\ top(t).check = ""
    /\ top(t).keys # <<>>
    /\ LET id == Head(top(t).keys)
           new_health == _evaluate_agent_health(agents[id], now, outcome)
       IN  /\ outcome # NoProbe <=> reaches_probe(agents[id], now)
           /\ agents' = [agents EXCEPT ![id].health = new_health]
           /\ stack' = [stack EXCEPT ![t][Len(stack[t])] =
                  [@ EXCEPT !.pending = health_dispatch(id, agents[id].health,
                                                        new_health),
                            !.keys = Tail(top(t).keys),
                            !.check = id]]
    /\ UNCHANGED <<order, status_callbacks, health_callbacks, now,
                   op, ret, kills, calls, nops, prev, lock, _monitoring, poller>>
    /\ UNCHANGED clients
    /\ UNCHANGED retired

(* The timeout check of the key just evaluated, after its health observers:
   a timed out record makes _check_agent_health call update_agent_status,
   which takes the lock again. *)
LockTimeoutCheck(t) ==
    /\ stack[t] # <<>>
    /\ top(t).running = NoCall
    /\ top(t).pending = <<>>
    /\ top(t).check # ""
    /\ LET id == top(t).check
           checked == [stack[t] EXCEPT ![Len(stack[t])].check = ""]
       IN  IF timed_out(agents[id], now)
           THEN /\ can_acquire(lock, t)
                /\ lock' = acquire(lock, t)
                /\ LET u == update_agent_status(agents, id, TIMEOUT,
                                                "Agent timed out", now)
                   IN  /\ agents' = u.agents
                       /\ stack' = [stack EXCEPT ![t] =
                                        Append(checked, frame(u.calls, <<>>))]
           ELSE /\ stack' = [stack EXCEPT ![t] = checked]
                /\ UNCHANGED <<agents, lock>>
    /\ UNCHANGED <<order, status_callbacks, health_callbacks, now,
                   op, ret, kills, calls, nops, prev, _monitoring, poller>>
    /\ UNCHANGED clients
    /\ UNCHANGED retired

(* terminate_agent, after os.kill, calls update_agent_status, which takes
   the lock again. *)
LockTerminateUpdate(t) ==
    /\ stack[t] # <<>>
    /\ top(t).update # NoUpdate
    /\ can_acquire(lock, t)
    /\ lock' = acquire(lock, t)
    /\ LET u == update_agent_status(agents, top(t).update[1],
                                    top(t).update[2], top(t).update[3], now)
       IN  /\ agents' = u.agents
           /\ stack' = [stack EXCEPT ![t] =
                            Append([@ EXCEPT ![Len(@)].update = NoUpdate],
                                   frame(u.calls, <<>>))]
    /\ UNCHANGED <<order, status_callbacks, health_callbacks, now,
                   op, ret, kills, calls, nops, prev, _monitoring, poller>>
    /\ UNCHANGED clients
    /\ UNCHANGED retired

(* The method returns: the end of `with self._lock:`. *)
LockReturn(t) ==
    /\ stack[t] # <<>>
    /\ top(t).running = NoCall
    /\ top(t).pending = <<>>
    /\ top(t).keys = <<>>
    /\ top(t).check = ""
    /\ top(t).update = NoUpdate
    /\ stack' = [stack EXCEPT ![t] = SubSeq(@, 1, Len(@) - 1)]
    /\ lock' = release(lock)
    /\ ret' = IF Len(stack[t]) = 1 THEN NoRet ELSE ret
    /\ UNCHANGED <<agents, order, status_callbacks, health_callbacks, now,
                   op, kills, calls, nops, prev, _monitoring, poller>>
    /\ UNCHANGED clients
    /\ UNCHANGED retired

(* The observers of the lock specifications: the first calls back into the
   monitor, the second returns. *)
LockObservers == <<"reenter", "ok">>

(* MaxTime after register_agent(id, pid). *)
LockInit ==
    /\ \E id \in LockIds, pid \in Pids :
          /\ agents = register_agent([x \in Ids |-> NoRec], id, pid, 0)
          /\ order = <<id>>
    /\ status_callbacks = LockObservers
    /\ health_callbacks = LockObservers
    /\ now = MaxTime
    /\ op = Label("init", "")
    /\ ret = NoRet
    /\ kills = <<>>
    /\ calls = <<>>
    /\ nops = 0
    /\ prev = agents
    /\ ThreadsInit
    /\ ClientsInit

LockProgress(t) ==
    \/ LockInvoke(t)
    \/ \E call \in LockCalls : LockNested(t, call)
    \/ LockObserverDone(t)
    \/ \E outcome \in LockOutcomes \cup {NoProbe} : LockTickKey(t, outcome)
    \/ LockTimeoutCheck(t)
    \/ LockTerminateUpdate(t)
    \/ LockReturn(t)

LockNext ==
    \E t \in Threads :
        \/ \E call \in LockCalls \cup LockRegistryCalls \cup {TickCall} :
              LockEnter(t, call)
        \/ LockProgress(t)

SpecLock == LockInit /\ [][LockNext]_vars

(* A thread that is inside a method keeps running. *)
SpecLockFair == SpecLock /\ \A t \in Threads : WF_vars(LockProgress(t))

----------------------------------------------------------------------------
(* One poller tick over a registry drawn from records of every status, with
   os.kill also able to raise an exception the evaluator does not catch. *)

TickStartTimes == {0, ResponsiveWindow}

TickHeartbeats == {NoTime, ResponsiveWindow}

TickErrorCounts == {0, max_error_count}

TickRecord(status, start, hb, pid, errors) ==
    [EvalRecord(status, hb, pid, errors) EXCEPT !.start_time = start]

TickRecords ==
    {TickRecord(status, start, hb, pid, errors) :
        status \in AgentStatus, start \in TickStartTimes,
        hb \in TickHeartbeats, pid \in Pids \cup {NoPid},
        errors \in TickErrorCounts}

(* The key orders a dict holding the keys S can have. *)
KeyOrders(S) ==
    {f \in [1..Cardinality(S) -> S] :
        \A i, j \in 1..Cardinality(S) : f[i] = f[j] => i = j}

TickInit ==
    /\ agents \in [Ids -> TickRecords \cup {NoRec}]
    /\ order \in KeyOrders({id \in Ids : agents[id] # NoRec})
    /\ status_callbacks = InstalledObservers
    /\ health_callbacks = InstalledObservers
    /\ now = ResponsiveWindow
    /\ op = Label("init", "")
    /\ ret = NoRet
    /\ kills = <<>>
    /\ calls = <<>>
    /\ nops = 0
    /\ prev = agents
    /\ ThreadsInit
    /\ ClientsInit

TickNext ==
    \E outcomes \in [Ids -> ProbeOutcomes \cup {OSERROR, NoProbe}] :
        PollerTick(outcomes)

SpecTick == TickInit /\ [][TickNext]_vars

(* _monitor_loop running for ever over a registry of running records and
   of records that have failed, been cancelled or timed out. *)
HealRecords ==
    {r \in TickRecords :
        /\ r.metrics.error_count = 0
        /\ r.process_id # NoPid
        /\ \/ r.status = RUNNING
           \/ /\ r.status \in {FAILED, CANCELLED, TIMEOUT}
              /\ r.start_time = 0
              /\ r.last_heartbeat = NoTime}

HealInit ==
    /\ agents \in [Ids -> HealRecords \cup {NoRec}]
    /\ order \in KeyOrders({id \in Ids : agents[id] # NoRec})
    /\ status_callbacks = InstalledObservers
    /\ health_callbacks = InstalledObservers
    /\ now = ResponsiveWindow
    /\ op = Label("init", "")
    /\ ret = NoRet
    /\ kills = <<>>
    /\ calls = <<>>
    /\ nops = 0
    /\ prev = agents
    /\ ThreadsInit
    /\ ClientsInit

HealCheck ==
    \E outcomes \in [Ids -> ProbeOutcomes \cup {OSERROR, NoProbe}] :
        LoopCheck(outcomes)

HealNext == LoopTest \/ HealCheck \/ LoopWake

(* The thread of _monitor_loop is scheduled again and again and its sleeps
   end. *)
SpecHealFair ==
    /\ HealInit
    /\ [][HealNext]_vars
    /\ WF_vars(LoopTest)
    /\ WF_vars(HealCheck)
    /\ WF_vars(LoopWake)

----------------------------------------------------------------------------
(* One call of update_agent_status, with every status and with no message,
   the empty message or a message, on a record drawn from those of every
   status. *)

UpdateMessages == {NoMsg, EmptyMsg, "Process timed out"}

UpdateInit ==
    /\ \E r \in TickRecords, id \in Ids :
          /\ agents = [x \in Ids |-> IF x = id THEN r ELSE NoRec]
          /\ order = <<id>>
    /\ status_callbacks = InstalledObservers
    /\ health_callbacks = InstalledObservers
    /\ now = ResponsiveWindow
    /\ op = Label("init", "")
    /\ ret = NoRet
    /\ kills = <<>>
    /\ calls = <<>>
    /\ nops = 0
    /\ prev = agents
    /\ ThreadsInit
    /\ ClientsInit

UpdateOnce(id, status, msg) == nops = 0 /\ UpdateStatus(id, status, msg)

UpdateNext ==
    \E id \in Ids, status \in AgentStatus, msg \in UpdateMessages :
        UpdateOnce(id, status, msg)

SpecUpdate == UpdateInit /\ [][UpdateNext]_vars

----------------------------------------------------------------------------
(* CodexRun.execute beside the other callers of the monitor: the run
   registers itself without a process id, keeps the record register_agent
   returned, and writes the pid of the process it spawned into that record. *)

(* The run ids of the CodexRun objects. *)
RunIds == {"a1"}

(* The pids of the processes subprocess.Popen starts. *)
SpawnedPids == {8}

(* Mutant: the pid is written into whatever record the registry holds for
   the run id. *)
spawn_written_by_id(regs, id, ref, pid) ==
    IF regs[id] # NoRec THEN [regs EXCEPT ![id].process_id = pid] ELSE regs

(* self.health_info.process_id = self.process.pid: a write to the record
   the run holds, which changes the registry only if that record is still
   the one of the registry. *)
spawn_written(regs, id, ref, pid) ==
    IF ref = "current" THEN [regs EXCEPT ![id].process_id = pid] ELSE regs

(* execute: self.health_info = self.health_monitor.register_agent(run_id). *)
RunExecute(id) ==
    /\ nops < MaxOps
    /\ agents' = register_agent(agents, id, NoPid, now)
    /\ order' = order_after_set(order, id)
    /\ runs' = [runs EXCEPT ![id] = "current"]
    /\ op' = Label("execute", id)
    /\ ret' = NoRet
    /\ kills' = <<>>
    /\ prev' = agents
    /\ calls' = <<>>
    /\ nops' = nops + 1
    /\ UNCHANGED <<status_callbacks, health_callbacks, now>>
    /\ UNCHANGED threads
    /\ shared' = shared \ {id}
    /\ UNCHANGED globals
    /\ UNCHANGED executions

(* _execute_codex after Popen: the pid is written into the held record and
   heartbeat(run_id) is called. *)
RunSpawn(id, pid) ==
    /\ runs[id] \in {"current", "stale"}
    /\ agents' = heartbeat(spawn_written(agents, id, runs[id], pid), id,
                           NoMetrics, now)
    /\ runs' = [runs EXCEPT ![id] = "spawned"]
    /\ op' = [Label("spawn", id) EXCEPT !.pid = pid]
    /\ ret' = NoRet
    /\ kills' = <<>>
    /\ prev' = agents
    /\ calls' = <<>>
    /\ UNCHANGED <<order, status_callbacks, health_callbacks, now, nops>>
    /\ UNCHANGED threads
    /\ UNCHANGED shared
    /\ UNCHANGED globals
    /\ UNCHANGED executions

RunNext ==
    \/ \E id \in RunIds : RunExecute(id)
    \/ \E id \in RunIds, pid \in SpawnedPids : RunSpawn(id, pid)
    \/ \E id \in RunIds, pid \in Pids \cup {NoPid} : Register(id, pid)
    \/ \E id \in RunIds : Unregister(id)
    \/ \E id \in RunIds, sm \in StatusInputs : UpdateStatus(id, sm[1], sm[2])
    \/ \E id \in RunIds, metrics \in MetricsInputs \cup {NoMetrics} :
          Heartbeat(id, metrics)
    \/ \E id \in RunIds, force \in BOOLEAN,
          outcome \in ProbeOutcomes \cup {NoProbe} :
          Terminate(id, force, outcome)
    \/ \E outcomes \in [Ids -> ProbeOutcomes \cup {NoProbe}] : PollerTick(outcomes)
    \/ AdvanceClock

SpecRun == Init /\ [][RunNext]_vars

----------------------------------------------------------------------------
(* CodexRun.execute with health monitoring enabled, one step per call it
   makes on the monitor, with the poller ticking in between. *)

(* What str(e) is for the exceptions execute and _execute_codex catch. *)
ExceptionTexts == {"boom", EmptyMsg}

(* AgentMetrics(runtime_seconds=..., error_count=1 if not self.success else
   0, last_activity=self.end_time) *)
final_metrics(success, t) ==
    [error_count |-> IF success THEN 0 ELSE 1, last_activity |-> t]

(* Mutant: the handler of execute leaves a status that _execute_codex has
   already reported. *)
execute_failed_once(regs, id, msg, t) ==
    IF regs[id] # NoRec /\ regs[id].status \in {FAILED, TIMEOUT}
    THEN [agents |-> regs, calls |-> <<>>]
    ELSE update_agent_status(regs, id, FAILED, msg, t)

(* except Exception as e: ... update_agent_status(run_id, FAILED, str(e)),
   in execute. *)
execute_failed(regs, id, msg, t) ==
    update_agent_status(regs, id, FAILED, msg, t)

(* One step of execute that leaves the key order alone: the registry and
   the observer invocations it leaves, the record the run holds, and where
   execute stands afterwards. *)
ExecStep(id, name, status, regs, invoked, held, next) ==
    /\ agents' = regs
    /\ calls' = invoked
    /\ runs' = [runs EXCEPT ![id] = held]
    /\ executions' = [executions EXCEPT ![id] = next]
    /\ op' = [Label(name, id) EXCEPT !.status = status]
    /\ ret' = NoRet
    /\ kills' = <<>>
    /\ prev' = agents
    /\ UNCHANGED <<order, status_callbacks, health_callbacks, now, nops>>
    /\ UNCHANGED threads
    /\ UNCHANGED shared
    /\ UNCHANGED globals

(* self.health_info = self.health_monitor.register_agent(agent_id=run_id) *)
ExecRegister(id) ==
    /\ executions[id].pc = "idle"
    /\ agents' = register_agent(agents, id, NoPid, now)
    /\ order' = order_after_set(order, id)
    /\ calls' = register_dispatch(agents, id)
    /\ runs' = [runs EXCEPT ![id] = "current"]
    /\ shared' = shared \ {id}
    /\ executions' = [executions EXCEPT ![id] =
                         [pc |-> "registered", success |-> FALSE,
                          reported |-> <<INITIALIZING>>]]
    /\ op' = [Label("execute", id) EXCEPT !.status = INITIALIZING]
    /\ ret' = NoRet
    /\ kills' = <<>>
    /\ prev' = agents
    /\ UNCHANGED <<status_callbacks, health_callbacks, now, nops>>
    /\ UNCHANGED threads
    /\ UNCHANGED globals

(* update_agent_status(self.run_id, AgentStatus.RUNNING) *)
ExecRunning(id) ==
    /\ executions[id].pc = "registered"
    /\ LET u == update_agent_status(agents, id, RUNNING, NoMsg, now)
       IN  ExecStep(id, "execute_running", RUNNING, u.agents, u.calls, runs[id],
                    [executions[id] EXCEPT
                        !.pc = "running",
                        !.reported = Append(@, RUNNING)])

(* _execute_codex after Popen: the pid is written into the held record and
   heartbeat(run_id) is called. *)
ExecSpawn(id, pid) ==
    /\ executions[id].pc = "running"
    /\ ExecStep(id, "execute_spawn", "",
                heartbeat(spawn_written(agents, id, runs[id], pid), id,
                          NoMetrics, now),
                <<>>, "spawned",
                [executions[id] EXCEPT !.pc = "spawned"])

(* The handlers of _execute_codex: TimeoutExpired of process.wait reports
   timeout, any other exception (Popen failing, a nonzero return code)
   reports failed; both then raise RuntimeError to execute. *)
ExecInnerFailure(id, status, msg) ==
    /\ \/ /\ executions[id].pc = "spawned"
          /\ status = TIMEOUT
          /\ msg = "Process timed out"
       \/ /\ executions[id].pc \in {"running", "spawned"}
          /\ status = FAILED
          /\ msg \in ExceptionTexts
    /\ LET u == update_agent_status(agents, id, status, msg, now)
       IN  ExecStep(id, "execute_inner_failure", status, u.agents, u.calls,
                    runs[id],
                    [executions[id] EXCEPT
                        !.pc = "raising",
                        !.reported = Append(@, status)])

(* self._parse_results() raises. *)
ExecParseFailure(id) ==
    /\ executions[id].pc = "spawned"
    /\ ExecStep(id, "execute_parse_failure", "", agents, <<>>, runs[id],
                [executions[id] EXCEPT !.pc = "raising"])

(* self.success = True; update_agent_status(self.run_id, COMPLETED) *)
ExecCompleted(id) ==
    /\ executions[id].pc = "spawned"
    /\ LET u == update_agent_status(agents, id, COMPLETED, NoMsg, now)
       IN  ExecStep(id, "execute_completed", COMPLETED, u.agents, u.calls,
                    runs[id],
                    [executions[id] EXCEPT
                        !.pc = "finishing",
                        !.success = TRUE,
                        !.reported = Append(@, COMPLETED)])

(* The handler of execute. *)
ExecFailed(id, msg) ==
    /\ executions[id].pc = "raising"
    /\ LET u == execute_failed(agents, id, msg, now)
       IN  ExecStep(id, "execute_failed", FAILED, u.agents, u.calls, runs[id],
                    [executions[id] EXCEPT
                        !.pc = "finishing",
                        !.reported = Append(@, FAILED)])

(* finally: heartbeat(self.run_id, final_metrics); return self.result *)
ExecFinalHeartbeat(id) ==
    /\ executions[id].pc = "finishing"
    /\ ExecStep(id, "execute_return", "",
                heartbeat(agents, id,
                          final_metrics(executions[id].success, now), now),
                <<>>, runs[id],
                [executions[id] EXCEPT !.pc = "returned"])

ExecuteNext ==
    \/ \E id \in RunIds : ExecRegister(id)
    \/ \E id \in RunIds : ExecRunning(id)
    \/ \E id \in RunIds, pid \in SpawnedPids : ExecSpawn(id, pid)
    \/ \E id \in RunIds, status \in {FAILED, TIMEOUT},
          msg \in ExceptionTexts \cup {"Process timed out"} :
          ExecInnerFailure(id, status, msg)
    \/ \E id \in RunIds : ExecParseFailure(id)
    \/ \E id \in RunIds : ExecCompleted(id)
    \/ \E id \in RunIds, msg \in ExceptionTexts : ExecFailed(id, msg)
    \/ \E id \in RunIds : ExecFinalHeartbeat(id)
    \/ \E outcomes \in [Ids -> ProbeOutcomes \cup {NoProbe}] : PollerTick(outcomes)
    \/ AdvanceClock

SpecExecute == Init /\ [][ExecuteNext]_vars

----------------------------------------------------------------------------
(* The module-level default monitor: get_health_monitor followed statement
   by statement on each calling thread, and stop_global_monitor called
   while no call of get_health_monitor is under way.  The calls of
   stop_global_monitor are the caller operations counted. *)

(* if _global_monitor is None: *)
GetTest(t) ==
    /\ getters[t] = "idle"
    /\ getters' = [getters EXCEPT ![t] =
                      IF _global_monitor = NoMonitor THEN "create"
                      ELSE "return"]
    /\ op' = Label("get_health_monitor", t)
    /\ ret' = NoRet
    /\ kills' = <<>>
    /\ calls' = <<>>
    /\ prev' = agents
    /\ UNCHANGED <<agents, order, status_callbacks, health_callbacks, now,
                   nops, runs, _global_monitor, monitors>>
    /\ UNCHANGED threads
    /\ UNCHANGED shared
    /\ UNCHANGED executions

(* _global_monitor = AgentHealthMonitor(): a new monitor, whose __init__
   starts its poller thread. *)
GetCreate(t) ==
    /\ getters[t] = "create"
    /\ _global_monitor' = monitors.created + 1
    /\ monitors' = [monitors EXCEPT !.created = @ + 1, !.since_stop = @ + 1]
    /\ getters' = [getters EXCEPT ![t] = "return"]
    /\ op' = Label("create", t)
    /\ ret' = NoRet
    /\ kills' = <<>>
    /\ calls' = <<>>
    /\ prev' = agents
    /\ UNCHANGED <<agents, order, status_callbacks, health_callbacks, now,
                   nops, runs>>
    /\ UNCHANGED threads
    /\ UNCHANGED shared
    /\ UNCHANGED executions

(* return _global_monitor *)
GetReturn(t) ==
    /\ getters[t] = "return"
    /\ monitors' = [monitors EXCEPT !.returned = @ \cup {_global_monitor}]
    /\ getters' = [getters EXCEPT ![t] = "idle"]
    /\ op' = Label("return", t)
    /\ ret' = NoRet
    /\ kills' = <<>>
    /\ calls' = <<>>
    /\ prev' = agents
    /\ UNCHANGED <<agents, order, status_callbacks, health_callbacks, now,
                   nops, runs, _global_monitor>>
    /\ UNCHANGED threads
    /\ UNCHANGED shared
    /\ UNCHANGED executions

(* stop_global_monitor *)
StopGlobal ==
    /\ nops < MaxOps
    /\ \A t \in Threads : getters[t] = "idle"
    /\ _global_monitor' = NoMonitor
    /\ monitors' = [monitors EXCEPT !.since_stop = 0, !.returned = {}]
    /\ op' = Label("stop_global_monitor", "")
    /\ ret' = NoRet
    /\ kills' = <<>>
    /\ calls' = <<>>
    /\ prev' = agents
    /\ nops' = nops + 1
    /\ UNCHANGED <<agents, order, status_callbacks, health_callbacks, now,
                   runs, getters>>
    /\ UNCHANGED threads
    /\ UNCHANGED shared
    /\ UNCHANGED executions

GlobalNext ==
    \/ \E t \in Threads : GetTest(t) \/ GetCreate(t) \/ GetReturn(t)
    \/ StopGlobal

SpecGlobal == Init /\ [][GlobalNext]_vars


----------------------------------------------------------------------------
(* Properties of the evaluator (checked under SpecEval) *)

(* The record and the facts the evaluator was applied to. *)
Evaluated == agents[op.id]

EvaluatedResponsive ==
    /\ Evaluated.last_heartbeat # NoTime
    /\ now - Evaluated.last_heartbeat < ResponsiveWindow

EvaluatedRunningLike ==
    Evaluated.status \in {INITIALIZING, RUNNING, WAITING_APPROVAL}

(* The ordered rules of the precedence table: <<condition, verdict>>.  A
   permission-denied probe matches no rule before the default. *)
PrecedenceRules ==
    << <<Evaluated.status \in {FAILED, CANCELLED, TIMEOUT}, UNHEALTHY>>,
       <<Evaluated.status = COMPLETED, HEALTHY>>,
       <<Evaluated.metrics.error_count >= max_error_count, UNHEALTHY>>,
       <<EvaluatedRunningLike /\ ~EvaluatedResponsive, DEGRADED>>,
       <<EvaluatedRunningLike /\ Evaluated.process_id # NoPid
            /\ op.outcome = GONE, UNHEALTHY>>,
       <<TRUE, HEALTHY>> >>

FirstMatchingRule ==
    CHOOSE i \in 1..Len(PrecedenceRules) :
        /\ PrecedenceRules[i][1]
        /\ \A j \in 1..(i - 1) : ~PrecedenceRules[j][1]

(* C2: for every status, error count, heartbeat age, process id and probe
   outcome, the evaluator returns the verdict of the first rule that matches,
   in the order failed/cancelled/timeout, completed, error count, not
   responsive, process absent, default healthy (permission denied counts as
   alive). *)
C2_FirstMatchWins ==
    op.name = "evaluate" => ret = PrecedenceRules[FirstMatchingRule][2]

(* A responsive record waiting for approval whose probe is refused: no rule
   before the default matches. *)
C2_Witness ==
    /\ op.name = "evaluate"
    /\ Evaluated.status = WAITING_APPROVAL
    /\ EvaluatedResponsive
    /\ Evaluated.process_id # NoPid
    /\ op.outcome = DENIED
    /\ Evaluated.metrics.error_count < max_error_count
    /\ ret = HEALTHY

(* C3 as stated: a running record with a process id whose process does not
   exist evaluates to unhealthy whatever its heartbeat, below the error
   threshold. *)
C3_AbsentProcessAlwaysUnhealthy ==
    (/\ op.name = "evaluate"
     /\ Evaluated.status = RUNNING
     /\ Evaluated.process_id # NoPid
     /\ op.outcome = GONE
     /\ Evaluated.metrics.error_count < max_error_count)
    => ret = UNHEALTHY

(* C3 amended: a running record with a process id whose process does not
   exist evaluates to unhealthy if its last heartbeat is fresh, and to
   degraded if its heartbeat is stale or absent (below the error threshold). *)
C3_AbsentProcessUnhealthyWhenResponsive ==
    (/\ op.name = "evaluate"
     /\ Evaluated.status = RUNNING
     /\ Evaluated.process_id # NoPid
     /\ op.outcome = GONE
     /\ Evaluated.metrics.error_count < max_error_count)
    => ret = IF EvaluatedResponsive THEN UNHEALTHY ELSE DEGRADED

C3_Witness ==
    /\ op.name = "evaluate"
    /\ Evaluated.status = RUNNING
    /\ Evaluated.process_id # NoPid
    /\ op.outcome = GONE
    /\ Evaluated.metrics.error_count < max_error_count
    /\ EvaluatedResponsive
    /\ ret = UNHEALTHY

----------------------------------------------------------------------------
(* Properties of the registry operations (checked under Spec).  In the state
   an operation leaves, op names it, prev is the registry it started from
   and agents the registry it left. *)

Before == prev[op.id]

After == agents[op.id]

Occurrences(seq, x) == Cardinality({i \in 1..Len(seq) : seq[i] = x})

(* C1: register(id) leaves exactly one record for id, with status
   initializing, health unknown, start_time the time of the call, default
   metrics, and no heartbeat, update time or error message, whatever record
   the id had before. *)
C1_RegisterStartsAfresh ==
    op.name = "register" =>
        /\ After = [status |-> INITIALIZING,
                    health |-> UNKNOWN,
                    start_time |-> now,
                    last_heartbeat |-> NoTime,
                    last_update |-> NoTime,
                    process_id |-> op.pid,
                    error_message |-> NoMsg,
                    metrics |-> [error_count |-> 0, last_activity |-> NoTime]]
        /\ Occurrences(order, op.id) = 1

(* A failed, unhealthy record with an error and a message is registered
   again at a later time. *)
C1_Witness ==
    /\ op.name = "register"
    /\ Before # NoRec
    /\ Before.status = FAILED
    /\ Before.health = UNHEALTHY
    /\ Before.metrics.error_count > 0
    /\ Before.error_message # NoMsg
    /\ Before.last_update # NoTime
    /\ Before.start_time < now
    /\ After.status = INITIALIZING

(* C4: a poller tick moves every running-like record whose runtime is
   strictly greater than timeout_threshold to status timeout with the message
   "Agent timed out" and one more error, and leaves the status of every
   running-like record whose runtime is at most the threshold. *)
C4_TickTimesOut ==
    op.name = "tick" =>
        \A id \in Ids :
            (prev[id] # NoRec /\ prev[id].status \in RunningLike) =>
                IF now - prev[id].start_time > timeout_threshold
                THEN /\ agents[id].status = TIMEOUT
                     /\ agents[id].error_message = "Agent timed out"
                     /\ agents[id].metrics.error_count
                            = prev[id].metrics.error_count + 1
                ELSE agents[id].status = prev[id].status

(* One tick over a record past the threshold and a record exactly at it. *)
C4_Witness ==
    /\ op.name = "tick"
    /\ \E id \in Ids :
          /\ prev[id] # NoRec
          /\ prev[id].status = RUNNING
          /\ now - prev[id].start_time > timeout_threshold
          /\ agents[id].status = TIMEOUT
    /\ \E id \in Ids :
          /\ prev[id] # NoRec
          /\ prev[id].status \in RunningLike
          /\ now - prev[id].start_time = timeout_threshold
          /\ agents[id].status = prev[id].status

(* C5 as stated: terminate(id) on a registered record without a process id
   sets status cancelled, returns true and sends no signal. *)
C5_TerminateWithoutPidCancels ==
    (/\ op.name = "terminate"
     /\ Before # NoRec
     /\ Before.process_id = NoPid)
    => /\ After.status = CANCELLED
       /\ ret = TRUE
       /\ kills = <<>>

(* C6: terminate(id) on a record whose process does not exist sets status
   failed and error_message "Process not found", adds one error and returns
   true. *)
C6_TerminateProcessNotFound ==
    (/\ op.name = "terminate"
     /\ Before # NoRec
     /\ Before.process_id # NoPid
     /\ op.outcome = GONE)
    => /\ After.status = FAILED
       /\ After.error_message = "Process not found"
       /\ After.metrics.error_count = Before.metrics.error_count + 1
       /\ ret = TRUE

C6_Witness ==
    /\ op.name = "terminate"
    /\ Before # NoRec
    /\ Before.process_id # NoPid
    /\ op.outcome = GONE
    /\ Before.status = RUNNING
    /\ After.status = FAILED
    /\ ret = TRUE

(* C7: terminate(id) whose signal is refused with permission denied returns
   false, leaves the record (and the registry) as it was and invokes no
   observer. *)
C7_TerminatePermissionDenied ==
    (/\ op.name = "terminate"
     /\ Before # NoRec
     /\ Before.process_id # NoPid
     /\ op.outcome = DENIED)
    => /\ ret = FALSE
       /\ agents = prev
       /\ calls = <<>>

C7_Witness ==
    /\ op.name = "terminate"
    /\ Before # NoRec
    /\ Before.process_id # NoPid
    /\ op.outcome = DENIED
    /\ Before.status = RUNNING
    /\ Len(status_callbacks) > 0
    /\ ret = FALSE

(* C8: terminate(id, force) on a record with a process id makes exactly one
   os.kill call, on that process id, with SIGKILL if force and SIGTERM
   otherwise; if the signal is delivered the status becomes cancelled and the
   call returns true. *)
C8_TerminateSignals ==
    (/\ op.name = "terminate"
     /\ Before # NoRec
     /\ Before.process_id # NoPid)
    => /\ kills = <<[pid |-> Before.process_id,
                     sig |-> IF op.force THEN SIGKILL ELSE SIGTERM]>>
       /\ op.outcome = ALIVE => (After.status = CANCELLED /\ ret = TRUE)

C8_Witness ==
    /\ op.name = "terminate"
    /\ op.force
    /\ Before # NoRec
    /\ Before.process_id \in Pids
    /\ op.outcome = ALIVE
    /\ kills = <<[pid |-> Before.process_id, sig |-> SIGKILL]>>
    /\ Before.status # CANCELLED
    /\ After.status = CANCELLED

(* C9: terminate(id) for an id that is not registered returns false, makes
   no os.kill call, invokes no observer and leaves the registry as it was. *)
C9_TerminateUnknownId ==
    (op.name = "terminate" /\ Before = NoRec)
    => /\ ret = FALSE
       /\ kills = <<>>
       /\ calls = <<>>
       /\ agents = prev

(* An unknown id is terminated while another agent is registered. *)
C9_Witness ==
    /\ op.name = "terminate"
    /\ Before = NoRec
    /\ \E id \in Ids : prev[id] # NoRec /\ prev[id].process_id # NoPid
    /\ ret = FALSE

(* C10: update_status(id, s) on a registered record invokes every status
   observer exactly once, in list order, with (id, s) if s differs from the
   status before the call, and invokes none if s equals it. *)
C10_StatusObserversOnChangeOnly ==
    (op.name = "update_status" /\ Before # NoRec)
    => IF op.status # Before.status
       THEN /\ Len(calls) = Len(status_callbacks)
            /\ \A i \in 1..Len(calls) :
                  /\ calls[i].list = "status"
                  /\ calls[i].index = i
                  /\ calls[i].id = op.id
                  /\ calls[i].value = op.status
       ELSE calls = <<>>

(* The same status is set a second time in a row: the first call notified
   the observers, the second notifies nobody. *)
C10_Witness ==
    /\ op.name = "update_status"
    /\ Before # NoRec
    /\ Before.status = RUNNING
    /\ op.status = RUNNING
    /\ Before.last_update # NoTime
    /\ Len(status_callbacks) >= 2
    /\ calls = <<>>

(* C11: update_agent_status, heartbeat and unregister_agent called with an
   id that is not registered return normally, leave the whole registry and
   its key order as they were (no record is created, none is changed) and
   invoke no observer. *)
C11_UnknownIdIsNoOp ==
    (op.name \in {"update_status", "heartbeat", "unregister"}
        /\ Before = NoRec)
    => /\ ret = NoRet
       /\ agents = prev
       /\ After = NoRec
       /\ Occurrences(order, op.id) = 0
       /\ \A x \in Ids : agents[x] # NoRec <=> Occurrences(order, x) = 1
       /\ calls = <<>>

(* A heartbeat with metrics for an unregistered id while another agent is
   registered. *)
C11_Witness ==
    /\ op.name = "heartbeat"
    /\ op.metrics # NoMetrics
    /\ Before = NoRec
    /\ \E x \in Ids : prev[x] # NoRec

(* C14: when an observer raises during the dispatch of a status or health
   transition, every observer of that list is still invoked for the same
   transition, in list order; update_agent_status, terminate_agent and the
   poller tick end without an exception; and the record holds the value the
   transition was dispatched for. *)
C14_RaisingObserverIsContained ==
    op.name \in {"update_status", "terminate", "tick"}
    => /\ IF op.name = "terminate" THEN ret \in BOOLEAN ELSE ret = NoRet
       /\ \A k \in 1..Len(calls) :
             calls[k].raised
             => LET cbs == IF calls[k].list = "status"
                           THEN status_callbacks ELSE health_callbacks
                IN  /\ \A j \in 1..Len(cbs) :
                          LET m == k + (j - calls[k].index)
                          IN  /\ m \in 1..Len(calls)
                              /\ calls[m].list = calls[k].list
                              /\ calls[m].index = j
                              /\ calls[m].id = calls[k].id
                              /\ calls[m].value = calls[k].value
                    /\ IF calls[k].list = "status"
                       THEN agents[calls[k].id].status = calls[k].value
                       ELSE agents[calls[k].id].health = calls[k].value

(* A tick in which both a health observer and a status observer raised and
   the observers behind them were invoked. *)
C14_Witness ==
    /\ op.name = "tick"
    /\ \E k \in 1..Len(calls) : calls[k].list = "health" /\ calls[k].raised
    /\ \E k \in 1..Len(calls) : calls[k].list = "status" /\ calls[k].raised
    /\ \E k \in 1..Len(calls) : calls[k].list = "status" /\ ~calls[k].raised

(* C16: in a poller tick every record of the registry is evaluated and
   timeout-checked, also when the evaluation of some record raises: each
   record holds the evaluator's value for it, and each running-like record
   past the timeout threshold has status timeout.  (The loop has no
   handler around the evaluation; the formula is violated.) *)
C16_TickCoversEveryRecord ==
    op.name = "tick"
    => \A id \in Ids :
          (prev[id] # NoRec /\ ~probe_raises(prev[id], now, op.outcomes[id]))
          => /\ agents[id].health
                    = _evaluate_agent_health(prev[id], now, op.outcomes[id])
             /\ timed_out(prev[id], now) => agents[id].status = TIMEOUT

(* C17: a poller tick leaves every status as it was, except that a
   running-like status may become timeout. *)
C17_TickOnlyTimesOutRunning ==
    op.name = "tick"
    => \A id \in Ids :
          /\ prev[id] = NoRec <=> agents[id] = NoRec
          /\ prev[id] # NoRec
             => \/ agents[id].status = prev[id].status
                \/ /\ prev[id].status \in RunningLike
                   /\ agents[id].status = TIMEOUT

(* A tick over a record that is not running-like and is past the timeout
   threshold, next to a running-like record that the tick timed out. *)
C17_Witness ==
    /\ op.name = "tick"
    /\ \E x, y \in Ids :
          /\ prev[x] # NoRec /\ prev[y] # NoRec
          /\ prev[x].status \in {COMPLETING, UNKNOWN_STATUS}
          /\ runtime_seconds(prev[x], now) > timeout_threshold
          /\ prev[y].status \in RunningLike
          /\ agents[y].status = TIMEOUT

Registered(regs) == {id \in Ids : regs[id] # NoRec}

(* C18: heartbeat, update_agent_status, terminate_agent, unregister_agent,
   get_agent_health and get_summary_stats leave the stored health of every
   record as it was; register_agent stores unknown for its record and
   leaves the others; a poller tick stores for each record the value the
   evaluator returned for it. *)
C18_HealthWrittenByRegisterAndTickOnly ==
    /\ op.name \in {"heartbeat", "update_status", "terminate", "unregister",
                     "get", "summary"}
       => \A id \in Registered(agents) :
             id \in Registered(prev) /\ agents[id].health = prev[id].health
    /\ op.name = "register"
       => /\ After.health = UNKNOWN
          /\ \A id \in Registered(agents) \ {op.id} :
                id \in Registered(prev) /\ agents[id].health = prev[id].health
    /\ op.name = "tick"
       => /\ Registered(agents) = Registered(prev)
          /\ \A id \in Registered(agents) :
                agents[id].health
                    = _evaluate_agent_health(prev[id], now, op.outcomes[id])

(* update_agent_status(failed) on a record whose stored health is healthy:
   the stored value stays healthy until the next tick. *)
C18_Witness ==
    /\ op.name = "update_status"
    /\ Before # NoRec
    /\ Before.health = HEALTHY
    /\ After.status = FAILED
    /\ After.health = HEALTHY

CountOf(counts, key) == IF key \in DOMAIN counts THEN counts[key] ELSE 0

RECURSIVE SumOver(_, _)
SumOver(S, f) ==
    IF S = {} THEN 0
    ELSE LET x == CHOOSE y \in S : TRUE IN f[x] + SumOver(S \ {x}, f)

(* C19: get_summary_stats returns total = the number of records; when the
   registry is empty nothing else; otherwise status_counts and
   health_counts hold, for each value, the number of records with it (a
   value no record has is absent), each summing to total, and total_errors
   is the sum of the records' error_count.  The call changes nothing. *)
C19_SummaryCounts ==
    op.name = "summary"
    => LET R == Registered(agents)
       IN  /\ agents = prev
           /\ ret.total = Cardinality(R)
           /\ R = {} => DOMAIN ret = {"total"}
           /\ R # {}
              => /\ \A s \in AgentStatus :
                       CountOf(ret.status_counts, s)
                           = Cardinality({id \in R : agents[id].status = s})
                 /\ DOMAIN ret.status_counts \subseteq AgentStatus
                 /\ SumOver(DOMAIN ret.status_counts, ret.status_counts)
                        = ret.total
                 /\ \A h \in HealthStatus :
                       CountOf(ret.health_counts, h)
                           = Cardinality({id \in R : agents[id].health = h})
                 /\ DOMAIN ret.health_counts \subseteq HealthStatus
                 /\ SumOver(DOMAIN ret.health_counts, ret.health_counts)
                        = ret.total
                 /\ ret.total_errors
                        = SumOver(R, [id \in R |-> agents[id].metrics.error_count])

(* A summary over two records of the same status, one of which has counted
   an error, after observers have raised. *)
C19_Witness ==
    /\ op.name = "summary"
    /\ Cardinality(Registered(agents)) = 2
    /\ \A x, y \in Registered(agents) : agents[x].status = agents[y].status
    /\ ret.total_errors > 0

(* C20: heartbeat on a registered record sets last_heartbeat and
   last_update to the time of the call; with metrics the record's metrics
   become the supplied bundle with last_activity the time of the call,
   without metrics they stay; status, health, start_time, process_id and
   error_message stay, the other records stay, and no observer is invoked. *)
C20_HeartbeatEffects ==
    (op.name = "heartbeat" /\ Before # NoRec)
    => /\ After.last_heartbeat = now
       /\ After.last_update = now
       /\ IF op.metrics # NoMetrics
          THEN After.metrics = [op.metrics EXCEPT !.last_activity = now]
          ELSE After.metrics = Before.metrics
       /\ After.status = Before.status
       /\ After.health = Before.health
       /\ After.start_time = Before.start_time
       /\ After.process_id = Before.process_id
       /\ After.error_message = Before.error_message
       /\ \A id \in Ids \ {op.id} : agents[id] = prev[id]
       /\ calls = <<>>
       /\ ret = NoRet

(* A heartbeat whose metrics carry error_count 0 on a record that had
   counted an error. *)
C20_Witness ==
    /\ op.name = "heartbeat"
    /\ Before # NoRec
    /\ Before.metrics.error_count > 0
    /\ op.metrics # NoMetrics
    /\ op.metrics.error_count = 0
    /\ After.metrics.error_count = 0

(* C15: a tick of _monitor_loop that raises leaves the loop in the sleep of
   its except block, from where it comes back to the loop test; the loop
   ends only at the loop test, and only when _monitoring is false. *)
C15_LoopSurvivesRaisingTick ==
    [][/\ (op'.name = "tick" /\ ret' = Raised) => poller'.pc = "backoff"
       /\ (poller'.pc = "exited" /\ poller.pc # "exited")
          => (poller.pc = "test" /\ ~_monitoring)]_vars

(* A tick that ran to its end after an earlier tick of the same loop had
   raised, monitoring not stopped. *)
C15_Witness ==
    /\ op.name = "tick"
    /\ ret = NoRet
    /\ poller.raised
    /\ poller.pc = "sleep"
    /\ _monitoring

(* C12: while an observer is running, the thread that called it does not
   own the registry lock.  (The callbacks are called inside
   `with self._lock:`; the formula is violated.) *)
C12_ObserversRunUnlocked ==
    \A t \in Threads :
        (stack[t] # <<>> /\ top(t).running # NoCall) => lock.owner # t

(* C13: every method call a thread has entered returns, whatever calls the
   observers make back into the monitor from inside it. *)
C13_ReentrantObserverReturns ==
    \A t \in Threads : (stack[t] # <<>>) ~> (stack[t] = <<>>)

(* update_agent_status(id, running) has returned, and the record holds
   the status that its first observer wrote by calling
   update_agent_status(id, completed) from inside. *)
C13_Witness ==
    /\ op.name = "update_status"
    /\ op.status = RUNNING
    /\ ret = NoRet
    /\ lock = RLock
    /\ prev[op.id] # NoRec
    /\ prev[op.id].status = INITIALIZING
    /\ agents[op.id] # NoRec
    /\ agents[op.id].status = COMPLETED

(* C21: update_agent_status on a registered record stores the status and
   the time of the call as last_update; with an error_message (anything but
   None) it stores the message and adds one to error_count, without one it
   leaves both; last_heartbeat, start_time, health and process_id stay.
   (`if error_message:` takes the empty string for no message; the formula
   is violated.) *)
C21_UpdateStatusEffects ==
    (op.name = "update_status" /\ Before # NoRec)
    => /\ After.status = op.status
       /\ After.last_update = now
       /\ IF op.msg # NoMsg
          THEN /\ After.error_message = op.msg
               /\ After.metrics.error_count = Before.metrics.error_count + 1
          ELSE /\ After.error_message = Before.error_message
               /\ After.metrics.error_count = Before.metrics.error_count
       /\ After.last_heartbeat = Before.last_heartbeat
       /\ After.start_time = Before.start_time
       /\ After.health = Before.health
       /\ After.process_id = Before.process_id

(* C22: for a record that an operation finds and leaves registered, and
   that the operation does not register anew, last_update after the
   operation is not earlier than before it (the clock never goes back). *)
C22_LastUpdateNeverDecreases ==
    \A id \in Ids :
        (/\ op.name \notin {"init", "evaluate"}
         /\ prev[id] # NoRec
         /\ agents[id] # NoRec
         /\ ~(op.name = "register" /\ op.id = id))
        => agents[id].last_update >= prev[id].last_update

(* A poller tick that times a record out after a heartbeat had stamped it
   at an earlier time. *)
C22_Witness ==
    /\ op.name = "tick"
    /\ \E id \in Ids :
          /\ prev[id] # NoRec
          /\ prev[id].last_update # NoTime
          /\ prev[id].last_update = prev[id].last_heartbeat
          /\ agents[id].status = TIMEOUT
          /\ agents[id].last_update > prev[id].last_update


(* A thread is inside a method of the monitor. *)
inside(t) == stack[t] # <<>>

(* C23: the registry operations exclude one another across threads: a
   thread that is inside register, unregister, update_status, heartbeat,
   terminate, get, summary or a poller tick owns the lock, as many times as
   it is calls deep, so no two threads are inside at once; and as long as a
   thread is inside, be it between the evaluation of a record and its
   timeout check or between the signal of terminate and its status update,
   every step that changes the registry or its key order is a step of that
   thread. *)
C23_OperationsExcludeOneAnother ==
    [][/\ \A t \in Threads :
             inside(t) => (lock.owner = t /\ lock.count = Len(stack[t]))
       /\ \A t \in Threads :
             (inside(t) /\ stack'[t] = stack[t])
                 => (agents' = agents /\ order' = order)]_vars

(* A thread has sent the signal of terminate and has its status update
   still to make, and another thread is outside the monitor. *)
C23_Witness ==
    \E t, u \in Threads :
        /\ t # u
        /\ inside(t)
        /\ top(t).update # NoUpdate
        /\ kills # <<>>
        /\ lock.owner = t
        /\ ~inside(u)

(* The dict a poller tick iterates over still holds every key the tick has
   to visit or to check for a timeout: the iteration does not raise. *)
TickKeysRegistered ==
    \A t \in Threads :
        inside(t) =>
            \A i \in 1..Len(stack[t]) :
                /\ \A k \in 1..Len(stack[t][i].keys) :
                       agents[stack[t][i].keys[k]] # NoRec
                /\ stack[t][i].check # "" => agents[stack[t][i].check] # NoRec

(* C24: with unregister on one thread and heartbeat, update_status,
   terminate and poller ticks on another, the dict is never changed under
   a running tick (no operation raises), unregister leaves the id absent,
   and an absent id becomes registered only by the step that enters
   register for it: no in-flight mutator re-creates the record. *)
C24_UnregisterIsFinal ==
    [][/\ TickKeysRegistered'
       /\ (nops' = nops + 1 /\ op'.name = "unregister")
              => agents'[op'.id] = NoRec
       /\ \A id \in Ids :
              (agents[id] = NoRec /\ agents'[id] # NoRec)
                  => (nops' = nops + 1 /\ op'.name = "register"
                      /\ op'.id = id)]_vars

(* A thread is inside heartbeat, update_status, terminate or a tick for an
   id that was unregistered before and is still absent. *)
C24_Witness ==
    \E t \in Threads :
        /\ inside(t)
        /\ op.name \in {"heartbeat", "update_status", "terminate", "tick"}
        /\ \A id \in LockIds : agents[id] = NoRec
        /\ order = <<>>

(* C25: once _monitoring is cleared at most one more tick begins, every
   call of stop_monitoring returns, and register_agent still registers.
   (Called from an observer that the poller thread invokes, stop_monitoring
   joins its own thread and raises; the formula is violated.) *)
C25_StopMonitoringStopsPoller ==
    /\ poller.after_stop <= 1
    /\ poller.joined # "raised"
    /\ (op.name = "register" /\ ~_monitoring) => agents[op.id] # NoRec

(* C26: register adds its id to the registered ids (or replaces the record
   of that id), unregister removes its id, and every other operation, poller
   ticks included, leaves the set of registered ids as it was, so a record
   in status completed, failed, cancelled or timeout stays; the dict holds
   each registered id once and no other key. *)
C26_OnlyRegisterAndUnregisterChangeIds ==
    /\ op.name = "register"
       => Registered(agents) = Registered(prev) \cup {op.id}
    /\ op.name = "unregister"
       => Registered(agents) = Registered(prev) \ {op.id}
    /\ op.name \notin {"register", "unregister"}
       => Registered(agents) = Registered(prev)
    /\ \A id \in Ids :
          Occurrences(order, id) = IF id \in Registered(agents) THEN 1 ELSE 0

(* A heartbeat, status update, terminate or tick on a registry that holds
   a record in a terminal status, which is still there afterwards. *)
C26_Witness ==
    /\ op.name \in {"heartbeat", "update_status", "terminate", "tick"}
    /\ \E id \in Registered(prev) :
          /\ prev[id].status \in {COMPLETED, FAILED, CANCELLED, TIMEOUT}
          /\ id \in Registered(agents)
          /\ agents[id].status \in {COMPLETED, FAILED, CANCELLED, TIMEOUT}

(* C27: start_time is written by register_agent alone: after any other
   operation, a status update back to running and poller ticks included,
   every record has the start_time it had before. *)
C27_StartTimeWrittenByRegisterOnly ==
    /\ op.name # "register"
       => \A id \in Registered(agents) :
             id \in Registered(prev)
             /\ agents[id].start_time = prev[id].start_time
    /\ op.name = "register"
       => \A id \in Registered(agents) \ {op.id} :
             id \in Registered(prev)
             /\ agents[id].start_time = prev[id].start_time

(* A record registered at an earlier time is set back to running from
   another status. *)
C27_Witness ==
    /\ op.name = "update_status"
    /\ Before # NoRec
    /\ Before.status \notin {RUNNING, INITIALIZING}
    /\ After.status = RUNNING
    /\ After.start_time < now
    /\ After.last_update = now

(* C28: a record whose process_id has a value keeps that value through
   every operation that does not register its id anew: heartbeat,
   update_agent_status, terminate_agent, poller ticks, and the write of the
   spawned pid by CodexRun.execute, which goes to the record the run
   registered itself. *)
C28_ProcessIdKeptOnceSet ==
    \A id \in Registered(prev) \cap Registered(agents) :
        (prev[id].process_id # NoPid
         /\ ~(op.name \in {"register", "execute"} /\ op.id = id))
            => agents[id].process_id = prev[id].process_id

(* The run writes its pid after another caller has registered the run id
   anew with a process id: the record of the registry keeps that one. *)
C28_Witness ==
    /\ op.name = "spawn"
    /\ Before # NoRec
    /\ Before.process_id \in Pids
    /\ op.pid # Before.process_id
    /\ After.process_id = Before.process_id
    /\ After.last_heartbeat = now

(* The invocations of the health observers for id by the last operation. *)
HealthCalls(id) ==
    SelectSeq(calls, LAMBDA c : c.list = "health" /\ c.id = id)

(* C29: in a poller tick each record ends with the evaluator's verdict
   stored; if that verdict differs from the one stored before, every health
   observer is invoked once for the record, in list order, with the id and
   the new verdict, and if it does not differ no health observer is invoked
   for the record. *)
C29_HealthObserversOnChangeOnly ==
    op.name = "tick"
    => \A id \in Ids :
          IF prev[id] = NoRec
          THEN HealthCalls(id) = <<>>
          ELSE LET verdict == _evaluate_agent_health(prev[id], now,
                                                     op.outcomes[id])
               IN  /\ agents[id].health = verdict
                   /\ IF verdict # prev[id].health
                      THEN /\ Len(HealthCalls(id)) = Len(health_callbacks)
                           /\ \A i \in 1..Len(HealthCalls(id)) :
                                 /\ HealthCalls(id)[i].index = i
                                 /\ HealthCalls(id)[i].value = verdict
                      ELSE HealthCalls(id) = <<>>

(* A tick over two records: the verdict of one changes and its observers
   are invoked, the first of them raising; the verdict of the other is the
   stored one and nobody is notified of it. *)
C29_Witness ==
    /\ op.name = "tick"
    /\ \E id, other \in Registered(prev) :
          /\ id # other
          /\ agents[id].health # prev[id].health
          /\ Len(HealthCalls(id)) = 2
          /\ HealthCalls(id)[1].raised
          /\ prev[other].health # UNKNOWN
          /\ agents[other].health = prev[other].health
          /\ HealthCalls(other) = <<>>

(* C30: between two calls of stop_global_monitor at most one default
   monitor is created, and every call of get_health_monitor returns that
   one, whatever the interleaving of the calling threads.  (The test and
   the assignment of _global_monitor are not one step; the formula is
   violated.) *)
C30_OneDefaultMonitor ==
    /\ monitors.since_stop <= 1
    /\ Cardinality(monitors.returned) <= 1

(* C31: after a poller tick every record whose status is failed, cancelled
   or timeout has the stored health unhealthy, also a record that this tick
   has moved to timeout.  (The tick evaluates a record before it makes the
   timeout check, so the record it times out keeps the verdict of its
   running status; the formula is violated.) *)
C31_TerminalStatusStoredUnhealthy ==
    op.name = "tick"
    => \A id \in Registered(agents) :
          agents[id].status \in {FAILED, CANCELLED, TIMEOUT}
              => agents[id].health = UNHEALTHY

(* C32: with the poller ticking for ever, a record whose status is failed,
   cancelled or timeout comes to have the stored health unhealthy.  (A tick
   that an exception of the evaluation of an earlier record ends does not
   come to the record, and neither does the next one; the formula is
   violated.) *)
C32_TerminalEventuallyUnhealthy ==
    \A id \in Ids :
        (agents[id] # NoRec
         /\ agents[id].status \in {FAILED, CANCELLED, TIMEOUT})
            ~> (agents[id] # NoRec /\ agents[id].health = UNHEALTHY)

(* C33: a poller tick leaves no record with the stored health unknown, and
   a record whose stored health is not unknown keeps a health that is not
   unknown through every operation that does not register its id anew. *)
C33_UnknownOnlyBeforeFirstTick ==
    /\ op.name = "tick"
       => \A id \in Registered(agents) :
             agents[id].health \in {HEALTHY, DEGRADED, UNHEALTHY}
    /\ \A id \in Registered(agents) \cap Registered(prev) :
          (prev[id].health # UNKNOWN
           /\ ~(op.name = "register" /\ op.id = id))
              => agents[id].health \in {HEALTHY, DEGRADED, UNHEALTHY}

(* The first tick over a record that is running and responsive and whose
   process the monitor may not signal: the stored unknown becomes healthy. *)
C33_Witness ==
    /\ op.name = "tick"
    /\ \E id \in Registered(prev) :
          /\ prev[id].health = UNKNOWN
          /\ op.outcomes[id] = DENIED
          /\ agents[id].health = HEALTHY

(* C34: whatever start_monitoring and stop_monitoring calls are made, one
   thread at most goes on running ticks: a thread that start_monitoring has
   replaced never finds `while self._monitoring` true again.  (The flag the
   old thread tests is the one start_monitoring has set again; the formula
   is violated.) *)
C34_OnePollerThread ==
    \A i \in 1..Len(retired) : ~retired[i].resumed

(* C35: a poller tick leaves a record whose status is timeout as it is in
   status and error_count and reports no status change for it; a record
   that the poller had timed out ("Agent timed out") and that a caller has
   set back to a running-like status without registering it again is set to
   timeout again by the next tick, with one more error. *)
C35_TimeoutOncePerStay ==
    op.name = "tick" =>
        \A id \in Registered(prev) :
            /\ prev[id].status = TIMEOUT
               => /\ agents[id].status = TIMEOUT
                  /\ agents[id].metrics.error_count
                         = prev[id].metrics.error_count
                  /\ \A i \in 1..Len(calls) :
                        ~(calls[i].list = "status" /\ calls[i].id = id)
            /\ (prev[id].status \in RunningLike
                /\ prev[id].error_message = "Agent timed out")
               => /\ now - prev[id].start_time > timeout_threshold
                  /\ agents[id].status = TIMEOUT
                  /\ agents[id].metrics.error_count
                         = prev[id].metrics.error_count + 1

(* A tick that times out, for the second time, a record set back to running
   after its first timeout, beside a record that stays in timeout. *)
C35_Witness ==
    /\ op.name = "tick"
    /\ \E id \in Registered(prev) :
          /\ prev[id].status = RUNNING
          /\ prev[id].error_message = "Agent timed out"
          /\ prev[id].metrics.error_count = 1
          /\ agents[id].status = TIMEOUT
          /\ agents[id].metrics.error_count = 2
    /\ \E id \in Registered(prev) :
          /\ prev[id].status = TIMEOUT
          /\ agents[id] = prev[id]

(* C36: register, unregister, update_status, heartbeat and terminate on an
   id leave the record of every other id as it was, in every field.  (A
   record that holds the same AgentMetrics object as the record operated
   on sees the writes to it; the formula is violated.) *)
C36_OtherRecordsUntouched ==
    op.name \in {"register", "unregister", "update_status", "heartbeat",
                 "terminate"}
    => \A id \in Ids \ {op.id} : agents[id] = prev[id]

(* C37: terminate_agent on a record with a process_id whose status is
   completed, failed or timeout still sends its signal; when the signal is
   delivered the status becomes cancelled and every status observer is
   invoked once with (id, cancelled); when the process does not exist the
   status becomes failed, the observers being invoked with (id, failed)
   exactly when it was not failed before. *)
C37_TerminateIgnoresStatus ==
    (/\ op.name = "terminate"
     /\ Before # NoRec
     /\ Before.process_id # NoPid
     /\ Before.status \in {COMPLETED, FAILED, TIMEOUT})
    => /\ Len(kills) = 1
       /\ op.outcome = ALIVE
          => /\ After.status = CANCELLED
             /\ ret = TRUE
             /\ Len(calls) = Len(status_callbacks)
             /\ \A i \in 1..Len(calls) :
                   /\ calls[i].list = "status"
                   /\ calls[i].index = i
                   /\ calls[i].id = op.id
                   /\ calls[i].value = CANCELLED
       /\ op.outcome = GONE
          => /\ After.status = FAILED
             /\ After.error_message = "Process not found"
             /\ Len(calls) = IF Before.status = FAILED THEN 0
                             ELSE Len(status_callbacks)
             /\ \A i \in 1..Len(calls) :
                   /\ calls[i].list = "status"
                   /\ calls[i].id = op.id
                   /\ calls[i].value = FAILED

(* A delivered signal turns a completed record into a cancelled one. *)
C37_Witness ==
    /\ op.name = "terminate"
    /\ Before # NoRec
    /\ Before.process_id # NoPid
    /\ Before.status = COMPLETED
    /\ op.outcome = ALIVE
    /\ After.status = CANCELLED
    /\ Len(calls) = Len(status_callbacks)

(* C38: register_agent and unregister_agent invoke no status observer and
   no health observer, whatever status and health the record they replace
   or remove had. *)
C38_RegistryCallsNotifyNobody ==
    op.name \in {"register", "unregister"} => calls = <<>>

(* A re-registration that takes a failed or completed record with a stored
   verdict back to initializing and unknown. *)
C38_Witness ==
    /\ op.name = "register"
    /\ Before # NoRec
    /\ Before.status \in {COMPLETED, FAILED}
    /\ Before.health # UNKNOWN
    /\ After.status = INITIALIZING
    /\ After.health = UNKNOWN
    /\ calls = <<>>

(* C39: when a health observer invoked in a poller tick unregisters an
   agent, every other record that was registered when the tick began is
   still evaluated and timeout-checked in that tick: its stored health is
   the evaluator's value and, if it was past the timeout, its status is
   timeout.  (The dict the loop iterates over has changed size, the loop
   ends with RuntimeError; the formula is violated.) *)
C39_TickSurvivesRegistryChange ==
    op.name = "tick" =>
        \A id \in Registered(prev) :
            agents[id] # NoRec
            => /\ agents[id].health
                      = _evaluate_agent_health(prev[id], now, op.outcomes[id])
               /\ timed_out(prev[id], now) => agents[id].status = TIMEOUT

(* C40: the statuses execute reports for its run are initializing, then
   running, then only completed, failed or timeout, completed never beside
   another of these; once execute has returned the record is registered,
   its status is completed if the run succeeded and failed otherwise and is
   the last status reported, a reported timeout is followed by failed, and
   error_count is 0 for a successful run and 1 for a failed one. *)
C40_ExecuteReportsInOrder ==
    \A id \in RunIds :
        LET e == executions[id]
            n == Len(e.reported)
        IN  /\ n >= 1 => e.reported[1] = INITIALIZING
            /\ n >= 2 => e.reported[2] = RUNNING
            /\ \A i \in 3..n :
                  /\ e.reported[i] \in {COMPLETED, FAILED, TIMEOUT}
                  /\ e.reported[i] = COMPLETED => n = 3
            /\ e.pc = "returned"
               => /\ n >= 3
                  /\ agents[id] # NoRec
                  /\ agents[id].status = IF e.success THEN COMPLETED ELSE FAILED
                  /\ e.reported[n] = agents[id].status
                  /\ \A i \in 3..n :
                        e.reported[i] = TIMEOUT
                        => i < n /\ e.reported[i + 1] = FAILED
                  /\ agents[id].metrics.error_count
                         = IF e.success THEN 0 ELSE 1

(* execute has returned after a subprocess timeout: timeout was reported,
   the record is failed, and the two errors counted are replaced by one. *)
C40_Witness ==
    \E id \in RunIds :
        /\ executions[id].pc = "returned"
        /\ executions[id].reported = <<INITIALIZING, RUNNING, TIMEOUT, FAILED>>
        /\ agents[id] # NoRec
        /\ agents[id].status = FAILED
        /\ agents[id].metrics.error_count = 1
        /\ op.name = "execute_return"
        /\ prev[id].metrics.error_count = 2

====
